---- MODULE Spec2Model ----
(***************************************************************************)
(* Model of the image synchronization engine of farcloser/quark:           *)
(*   sdk/sync.go            SyncBuilder.Build, Sync.execute                *)
(*   internal/sync/sync.go  Syncer.SyncImage, syncMultiPlatform,           *)
(*                          syncSinglePlatform, stripTag                   *)
(*   internal/registry/client.go  GetImage, CopyImage, GetPlatformDigests, *)
(*                          FetchPlatformImage, PushManifestList           *)
(* Go strings are sequences of one-character strings, so that the code's   *)
(* scans (strings.Index, the backwards loop of stripTag, strings.SplitN,   *)
(* sort.Strings) are computed, not assumed.  The two registries are the    *)
(* environment: every network request may succeed or fail.                 *)
(***************************************************************************)
EXTENDS Integers, Sequences, FiniteSets, TLC

VARIABLES
    pc,               \* position of the running sync: the call about to be made
    via,              \* who called Syncer.SyncImage: "sdk" (Sync.execute) or "direct"
    srcImage,         \* SyncImage argument
    dstImage,         \* SyncImage argument
    mediaType,        \* desc.MediaType returned by GetImage
    platformDigests,  \* map platform -> digest returned by GetPlatformDigests
    visited,          \* keys of platformDigests the range loop has already taken
    platformImages,   \* map platform -> v1.Image collected by the loop
    calls,            \* history: network requests issued by this SyncImage call
    trace,            \* history: steps of the Synchronizer state machine entered
    dstWrites,        \* history: what this call has written into the destination
    dstReported,      \* what the destination answered to the last write
    retDigest,        \* SyncImage's returned digest
    retErr,           \* SyncImage's returned error chain (<<>> is nil)
    plan,             \* plan.syncs
    builderSource,    \* source image handed to the last SyncBuilder.Build
    builderDest,      \* destination image of the sync Build last added to the
                      \* plan, as reference.Parse made it
    buildErr,         \* error of the last SyncBuilder.Build
    executing,        \* index in plan.syncs of the sync being executed, 0 if none
    execErr,          \* error of the last Sync.execute
    ctxDone,          \* the context given to Plan.Execute has been cancelled
    clients,          \* the two registry.Client of a sync: host, username, password
    created,          \* history: the clients as NewClient returned them
    made,             \* history: number of calls made on each client
    sent,             \* history: requests issued by the last client call
    answer,           \* what the last client call returned
    rt,               \* position of one request inside the library's retry loop
    rtRef,            \* the reference the request is made for
    attempts,         \* history: status of the response to each attempt, 0 if none
    backoff,          \* the loop's copy of the backoff: Duration and Steps left
    delays,           \* history: duration each Step() of the backoff gave
    slept,            \* how long the last sleep lasted, jitter included
    rtErr,            \* the error the request ends with
    stripCall,        \* a call of stripTag: its argument, and its result once made
    ops,              \* two SyncImage calls in flight: position and locals of each
    dstTag,           \* what the destination reference of both resolves to
    dstBlobs,         \* digests of the images the destination repository stores
    putOrder,         \* history: the calls whose push completed, in that order
    parseCall,        \* a call of reference.Parse: its argument, and its result once made
    builders,         \* the builders made so far: kind, configuration, built flag,
                      \* and history: the error of each Build call
    operations,       \* plan.operations
    resources,        \* plan.registries and plan.buildNodes: what Build stored there
    planPc,           \* "building", then Plan.Execute "executing", then "returned"
    executed,         \* history: the operations Plan.Execute has run, with their errors
    planErr,          \* what Plan.Execute returned
    digestsCall       \* a call of Client.GetPlatformDigests: the manifests of the
                      \* source index, and the map returned once the call is made

vars == <<pc, via, srcImage, dstImage, mediaType, platformDigests, visited,
          platformImages, calls, trace, dstWrites, dstReported, retDigest,
          retErr, plan, builderSource, builderDest, buildErr, executing, execErr,
          ctxDone,
          clients, created, made, sent, answer,
          rt, rtRef, attempts, backoff, delays, slept, rtErr, stripCall,
          ops, dstTag, dstBlobs, putOrder, parseCall,
          builders, operations, resources, planPc, executed, planErr,
          digestsCall>>

----------------------------------------------------------------------------
(* Bounds *)

\* largest number of manifest descriptors in a source index
MaxManifests == 4

----------------------------------------------------------------------------
(* Strings *)

EmptyString == << >>

linux   == <<"l", "i", "n", "u", "x">>
windows == <<"w", "i", "n", "d", "o", "w", "s">>
amd64   == <<"a", "m", "d", "6", "4">>
arm64   == <<"a", "r", "m", "6", "4">>
arm     == <<"a", "r", "m">>
i386    == <<"3", "8", "6">>

\* byte value of the characters that occur in platform keys
CharCode(c) ==
    CASE c = "/" -> 47  [] c = "3" -> 51  [] c = "4" -> 52  [] c = "6" -> 54
      [] c = "8" -> 56  [] c = "a" -> 97  [] c = "d" -> 100 [] c = "i" -> 105
      [] c = "l" -> 108 [] c = "m" -> 109 [] c = "n" -> 110 [] c = "o" -> 111
      [] c = "r" -> 114 [] c = "s" -> 115 [] c = "u" -> 117 [] c = "w" -> 119
      [] c = "x" -> 120 [] OTHER -> 0

\* Go's string comparison a < b: bytewise, a proper prefix is smaller
RECURSIVE StringLess(_, _)
StringLess(a, b) ==
    IF b = << >> THEN FALSE
    ELSE IF a = << >> THEN TRUE
    ELSE IF CharCode(Head(a)) # CharCode(Head(b))
         THEN CharCode(Head(a)) < CharCode(Head(b))
         ELSE StringLess(Tail(a), Tail(b))

\* strings.Index(s, c) for a one-byte c, counted from 1; 0 when absent
RECURSIVE IndexFrom(_, _, _)
IndexFrom(s, c, i) ==
    IF i > Len(s) THEN 0
    ELSE IF s[i] = c THEN i
    ELSE IndexFrom(s, c, i + 1)

Index(s, c) == IndexFrom(s, c, 1)

\* fmt.Sprintf("%s/%s", os, arch)
Sprintf(os, arch) == os \o <<"/">> \o arch

\* strings.SplitN(platform, "/", 2)
SplitN(platform) ==
    LET i == Index(platform, "/")
    IN  IF i = 0 THEN <<platform>>
        ELSE <<SubSeq(platform, 1, i - 1), SubSeq(platform, i + 1, Len(platform))>>

\* all orders in which the keys of a map can be iterated
Orders(S) ==
    {o \in [1..Cardinality(S) -> S] : \A i, j \in 1..Cardinality(S) : o[i] = o[j] => i = j}

\* map[k] = v
MapPut(m, k, v) == [x \in (DOMAIN m) \cup {k} |-> IF x = k THEN v ELSE m[x]]

EmptyMap == [x \in {} |-> EmptyString]

----------------------------------------------------------------------------
(* internal/sync/sync.go: stripTag *)

\* the backwards loop of stripTag, from index i down to 1
RECURSIVE stripTagScan(_, _)
stripTagScan(imageRef, i) ==
    IF i < 1 THEN imageRef
    ELSE IF imageRef[i] = ":" THEN SubSeq(imageRef, 1, i - 1)
    ELSE IF imageRef[i] = "/" THEN imageRef
    ELSE stripTagScan(imageRef, i - 1)

\* stripTag without its scan for a tag
stripTag_keepTag(imageRef) ==
    LET atIdx == Index(imageRef, "@")
    IN  IF atIdx # 0 THEN SubSeq(imageRef, 1, atIdx - 1) ELSE imageRef

\* stripTag cutting at the first colon of the reference
stripTag_firstColon(imageRef) ==
    LET atIdx == Index(imageRef, "@")
        colon == Index(imageRef, ":")
    IN  IF atIdx # 0 THEN SubSeq(imageRef, 1, atIdx - 1)
        ELSE IF colon # 0 THEN SubSeq(imageRef, 1, colon - 1)
        ELSE imageRef

stripTag(imageRef) ==
    LET atIdx == Index(imageRef, "@")
    IN  IF atIdx # 0 THEN SubSeq(imageRef, 1, atIdx - 1)
        ELSE stripTagScan(imageRef, Len(imageRef))

----------------------------------------------------------------------------
(* References, digests, media types *)

\* digests the source registry serves for platform images
Digest1 == <<"s", ":", "1">>
Digest2 == <<"s", ":", "2">>
\* digest of the source image or index itself, as pinned by the caller
Digest0 == <<"s", ":", "0">>
\* a digest only the destination ever mentions
DigestX == <<"s", ":", "x">>

PlatformDigestValues == {Digest1, Digest2}

\* name.ParseReference succeeds: the reference is not empty, has a
\* repository before any ":" or "@", and nothing is left dangling
ParseReference(ref) ==
    /\ ref # EmptyString
    /\ Head(ref) \notin {":", "@", "/"}
    /\ ref[Len(ref)] \notin {":", "@", "/"}
    /\ LET atIdx == Index(ref, "@")
       IN  atIdx # 0 => IndexFrom(ref, "@", atIdx + 1) = 0

\* the digest a reference is qualified with, or the empty string
RefDigest(ref) ==
    LET atIdx == Index(ref, "@")
    IN  IF atIdx = 0 THEN EmptyString ELSE SubSeq(ref, atIdx + 1, Len(ref))

MediaTypes == {"OCIImageIndex", "DockerManifestList",
               "OCIManifestSchema1", "DockerManifestSchema2"}

\* a test for the OCI index type alone
IsIndex_onlyOCI(mt) == mt = "OCIImageIndex"

\* desc.MediaType.IsIndex()
IsIndex(mt) == mt \in {"OCIImageIndex", "DockerManifestList"}

----------------------------------------------------------------------------
(* internal/registry/client.go: the pure parts *)

NoPlatform == [has |-> FALSE, os |-> EmptyString, architecture |-> EmptyString]

Platform(os, arch) == [has |-> TRUE, os |-> os, architecture |-> arch]

\* the platforms a source index of the model may list
SourcePlatforms ==
    {Platform(linux, amd64), Platform(linux, arm64),
     Platform(linux, i386), Platform(windows, amd64), NoPlatform}

\* manifest descriptors of a source index
Descriptors == [platform : SourcePlatforms, digest : PlatformDigestValues]

\* the loop of GetPlatformDigests over manifest.Manifests
RECURSIVE extractPlatformDigests(_, _)
extractPlatformDigests(manifests, acc) ==
    IF manifests = << >> THEN acc
    ELSE LET desc == Head(manifests)
         IN  extractPlatformDigests(Tail(manifests),
                 IF desc.platform.has
                 THEN MapPut(acc, Sprintf(desc.platform.os, desc.platform.architecture),
                             desc.digest)
                 ELSE acc)

\* the loop keeping, for a platform listed several times, its first digest
PlatformDigestsOf_firstWins(manifests) ==
    LET with == {i \in 1..Len(manifests) : manifests[i].platform.has}
        key(i) == Sprintf(manifests[i].platform.os, manifests[i].platform.architecture)
        first(k) == CHOOSE i \in with :
                        key(i) = k /\ \A j \in with : key(j) = k => i <= j
    IN  [k \in {key(i) : i \in with} |-> manifests[first(k)].digest]

\* platformDigests := make(map[string]string) and the loop that fills it
PlatformDigestsOf(manifests) == extractPlatformDigests(manifests, EmptyMap)

\* sort.Strings: insertion into an already sorted slice
RECURSIVE insertString(_, _)
insertString(sorted, s) ==
    IF sorted = << >> THEN <<s>>
    ELSE IF StringLess(s, Head(sorted)) THEN <<s>> \o sorted
    ELSE <<Head(sorted)>> \o insertString(Tail(sorted), s)

RECURSIVE sortStringsRec(_)
sortStringsRec(a) ==
    IF a = << >> THEN << >> ELSE insertString(sortStringsRec(Tail(a)), Head(a))

\* the slice left in map iteration order
SortStrings_unsorted(a) == a

SortStrings(a) == sortStringsRec(a)

\* mutate.AppendManifests for each platform of the slice, in slice order
AppendManifests(platforms, images) ==
    [i \in 1..Len(platforms) |->
        LET parts == SplitN(platforms[i])
        IN  [os |-> parts[1], architecture |-> parts[2],
             digest |-> images[platforms[i]].digest]]

\* the bytes of the assembled index, entry after entry
RECURSIVE SerializeIndex(_)
SerializeIndex(idx) ==
    IF idx = << >> THEN << >>
    ELSE Head(idx).os \o <<"/">> \o Head(idx).architecture \o <<"=">>
         \o Head(idx).digest \o <<";">> \o SerializeIndex(Tail(idx))

\* idx.Digest(): a hash of the serialized index; distinct bytes, distinct digest
IndexDigest(idx) == <<"s", ":">> \o SerializeIndex(idx)

\* an allow-list that also lets linux/386 through
supportedPlatforms_with386 ==
    <<Sprintf(linux, amd64), Sprintf(linux, arm64), Sprintf(linux, i386)>>

\* supportedPlatforms of syncMultiPlatform
supportedPlatforms == <<Sprintf(linux, amd64), Sprintf(linux, arm64)>>

\* the inner loop of syncMultiPlatform over supportedPlatforms
supported(platform) == \E i \in 1..Len(supportedPlatforms) : supportedPlatforms[i] = platform

\* srcDigestRef of FetchPlatformImage
srcDigestRef(srcRef, platformDigest) == srcRef \o <<"@">> \o platformDigest

----------------------------------------------------------------------------
(* sdk: images and the references rendered from them *)

NilErr == << >>

NilImage == [nil |-> TRUE, domain |-> EmptyString, path |-> EmptyString,
             explicitTag |-> EmptyString, tag |-> EmptyString, digest |-> EmptyString]

latest == <<"l", "a", "t", "e", "s", "t">>

\* the ImageReference that reference.Parse builds for domain/path[:version][@digest]
Image(domain, path, version, digest) ==
    [nil |-> FALSE, domain |-> domain, path |-> path, explicitTag |-> version,
     tag |-> IF version # EmptyString THEN version
             ELSE IF digest = EmptyString THEN latest ELSE EmptyString,
     digest |-> digest]

\* ImageReference.Name
Name(img) ==
    (IF img.domain # EmptyString THEN img.domain \o <<"/">> ELSE EmptyString) \o img.path

\* Image.digestRef and Image.tagRef: <<reference, error>>
digestRef(img) ==
    IF img.digest = EmptyString THEN <<EmptyString, "ErrImageDigestRequired">>
    ELSE <<Name(img) \o <<"@">> \o img.digest, "nil">>

tagRef(img) ==
    IF img.explicitTag = EmptyString THEN <<EmptyString, "ErrImageVersionRequired">>
    ELSE <<Name(img) \o <<":">> \o img.tag, "nil">>

\* images a plan of the model gives to a sync
SourceImages ==
    {Image(d, <<"a">>, v, g) : d \in {<<"h", ":", "5">>, <<"r">>},
                               v \in {EmptyString, <<"t">>},
                               g \in {EmptyString, Digest0}} \cup {NilImage}

DestImages ==
    {Image(<<"g">>, <<"b">>, v, EmptyString) : v \in {EmptyString, <<"t">>}} \cup {NilImage}

\* references Syncer.SyncImage is called with directly, as its tests do
DirectSources == {EmptyString, <<"h", ":", "5", "/", "a", ":", "t">>}
DirectDestinations == {EmptyString, <<"g", "/", "b", ":", "t">>}

\* source indexes: up to MaxManifests descriptors
SourceIndexes == UNION {[1..n -> Descriptors] : n \in 0..MaxManifests}

\* what a destination may claim to have stored
DstReports == {Digest1, DigestX}

----------------------------------------------------------------------------
(* State *)

callVars == <<srcImage, dstImage, via>>
syncVars == <<pc, via, srcImage, dstImage, mediaType, platformDigests, visited,
              platformImages, calls, trace, dstWrites, dstReported, retDigest, retErr>>
sdkVars  == <<plan, builderSource, builderDest, buildErr, executing, execErr>>
\* what no step of a sync, from SyncBuilder.Build to the return of Sync.execute,
\* reads or writes
clientVars == <<clients, created, made, sent, answer>>
retryVars == <<rt, rtRef, attempts, backoff, delays, slept, rtErr>>
raceVars == <<ops, dstTag, dstBlobs, putOrder>>
parseVars == <<parseCall>>
planVars == <<builders, operations, resources, planPc, executed, planErr>>
digestsVars == <<digestsCall>>
auxVars  == <<ctxDone, clientVars, retryVars, stripCall, raceVars, parseVars, planVars, digestsVars>>

Idle == pc = "idle" \/ (pc = "returned" /\ via = "direct")

Request(client, op, ref, ok) == [client |-> client, op |-> op, ref |-> ref, ok |-> ok]

\* no plan built, no sync started
SyncInit ==
    /\ pc = "idle"
    /\ via = "none"
    /\ srcImage = EmptyString
    /\ dstImage = EmptyString
    /\ mediaType = "none"
    /\ platformDigests = EmptyMap
    /\ visited = {}
    /\ platformImages = EmptyMap
    /\ calls = << >>
    /\ trace = << >>
    /\ dstWrites = << >>
    /\ dstReported = EmptyString
    /\ retDigest = EmptyString
    /\ retErr = NilErr
    /\ plan = << >>
    /\ builderSource = NilImage
    /\ builderDest = NilImage
    /\ buildErr = "nil"
    /\ executing = 0
    /\ execErr = "nil"

\* no registry client under observation
ClientOff ==
    /\ clients = << >>
    /\ created = << >>
    /\ made = << >>
    /\ sent = << >>
    /\ answer = << >>

\* no request under observation
RetryOff ==
    /\ rt = "off"
    /\ rtRef = EmptyString
    /\ attempts = << >>
    /\ backoff = << >>
    /\ delays = << >>
    /\ slept = 0
    /\ rtErr = "nil"

\* no concurrent calls under observation
ParseOff == parseCall = << >>

\* no call of GetPlatformDigests under observation
DigestsOff == digestsCall = << >>

PlanOff ==
    /\ builders = << >>
    /\ operations = << >>
    /\ resources = << >>
    /\ planPc = "off"
    /\ executed = << >>
    /\ planErr = "nil"

RaceOff ==
    /\ ops = << >>
    /\ dstTag = << >>
    /\ dstBlobs = {}
    /\ putOrder = << >>

Init ==
    /\ SyncInit
    /\ ctxDone = FALSE
    /\ DigestsOff
    /\ PlanOff
    /\ ClientOff
    /\ RetryOff
    /\ ParseOff
    /\ stripCall = << >>
    /\ RaceOff

\* entry of Syncer.SyncImage(src, dst)
Enter(src, dst, who) ==
    /\ pc' = "GetImage"
    /\ via' = who
    /\ srcImage' = src
    /\ dstImage' = dst
    /\ mediaType' = "none"
    /\ platformDigests' = EmptyMap
    /\ visited' = {}
    /\ platformImages' = EmptyMap
    /\ calls' = << >>
    /\ trace' = <<"Start">>
    /\ dstWrites' = << >>
    /\ dstReported' = EmptyString
    /\ retDigest' = EmptyString
    /\ retErr' = NilErr

\* return digest, err from Syncer.SyncImage
Return(digest, err) ==
    /\ pc' = "returned"
    /\ retDigest' = digest
    /\ retErr' = err

----------------------------------------------------------------------------
(* sdk/sync.go *)

PlatformAMD64 == Sprintf(linux, amd64)
PlatformARM64 == Sprintf(linux, arm64)

\* arguments of SyncBuilder.Platforms in the model
PlatformChoices == {<< >>, <<PlatformAMD64>>}

\* SyncBuilder.Build without its check of the source digest
BuildError_noDigestCheck(source, dest) ==
    IF source.nil THEN "ErrSyncSourceRequired"
    ELSE IF dest.nil THEN "ErrSyncDestinationRequired"
    ELSE "nil"

\* the error SyncBuilder.Build returns for these builder fields
BuildError(source, dest) ==
    IF source.nil THEN "ErrSyncSourceRequired"
    ELSE IF source.digest = EmptyString THEN "ErrSyncSourceDigestRequired"
    ELSE IF dest.nil THEN "ErrSyncDestinationRequired"
    ELSE "nil"

\* plan.Sync(name).Source(source).Destination(dest).Platforms(platforms...).Build();
\* the plans of the model hold one sync
SyncBuilderBuild(source, dest, platforms) ==
    /\ Idle
    /\ executing = 0
    /\ plan = << >>
    /\ builderSource' = source
    /\ builderDest' = IF BuildError(source, dest) # "nil" THEN builderDest ELSE dest
    /\ buildErr' = BuildError(source, dest)
    /\ plan' = IF BuildError(source, dest) # "nil" THEN plan
               ELSE Append(plan,
                      [sourceImage |-> source, destImage |-> dest,
                       platforms |-> IF Len(platforms) = 0
                                     THEN <<PlatformAMD64, PlatformARM64>>
                                     ELSE platforms,
                       destDigest |-> EmptyString])
    /\ UNCHANGED <<pc, via, srcImage, dstImage, mediaType, platformDigests, visited,
                   platformImages, calls, trace, dstWrites, dstReported, retDigest,
                   retErr, executing, execErr>>
    /\ UNCHANGED auxVars

\* Sync.execute up to its call of syncer.SyncImage(sourceRef, destRef); a sync
\* that has recorded its digest is not executed again
SyncExecute(i) ==
    /\ Idle
    /\ executing = 0
    /\ i \in 1..Len(plan)
    /\ plan[i].destDigest = EmptyString
    /\ LET sourceRef == digestRef(plan[i].sourceImage)
           destRef   == tagRef(plan[i].destImage)
       IN  IF sourceRef[2] # "nil"
           THEN /\ execErr' = "failed to build source reference"
                /\ UNCHANGED <<pc, via, srcImage, dstImage, mediaType, platformDigests,
                               visited, platformImages, calls, trace, dstWrites,
                               dstReported, retDigest, retErr, executing>>
           ELSE IF destRef[2] # "nil"
           THEN /\ execErr' = "failed to build destination reference"
                /\ UNCHANGED <<pc, via, srcImage, dstImage, mediaType, platformDigests,
                               visited, platformImages, calls, trace, dstWrites,
                               dstReported, retDigest, retErr, executing>>
           ELSE /\ Enter(sourceRef[1], destRef[1], "sdk")
                /\ executing' = i
                /\ execErr' = "nil"
    /\ UNCHANGED <<plan, builderSource, builderDest, buildErr>>
    /\ UNCHANGED auxVars

\* Sync.execute keeping the digest for DestDigest() alone
SyncExecuteReturn_digestOnSyncOnly ==
    /\ pc = "returned"
    /\ via = "sdk"
    /\ executing # 0
    /\ pc' = "idle"
    /\ executing' = 0
    /\ IF retErr # NilErr
       THEN /\ execErr' = "failed to sync image"
            /\ plan' = plan
       ELSE /\ execErr' = "nil"
            /\ plan' = [plan EXCEPT ![executing].destDigest = retDigest]
    /\ UNCHANGED <<via, srcImage, dstImage, mediaType, platformDigests, visited,
                   platformImages, calls, trace, dstWrites, dstReported, retDigest,
                   retErr, builderSource, builderDest, buildErr>>
    /\ UNCHANGED auxVars

\* Sync.execute after syncer.SyncImage has returned; digest.Parse accepts the
\* digest that Digest() has just computed
SyncExecuteReturn ==
    /\ pc = "returned"
    /\ via = "sdk"
    /\ executing # 0
    /\ pc' = "idle"
    /\ executing' = 0
    /\ IF retErr # NilErr
       THEN /\ execErr' = "failed to sync image"
            /\ plan' = plan
       ELSE /\ execErr' = "nil"
            /\ plan' = [plan EXCEPT ![executing].destDigest = retDigest,
                                    ![executing].destImage.digest = retDigest]
    /\ UNCHANGED <<via, srcImage, dstImage, mediaType, platformDigests, visited,
                   platformImages, calls, trace, dstWrites, dstReported, retDigest,
                   retErr, builderSource, builderDest, buildErr>>
    /\ UNCHANGED auxVars

\* Sync.DestDigest()
DestDigest(sync) == sync.destDigest

\* the check Scan.execute makes on its image before anything else
ScanDigestCheck(image) ==
    IF image.digest = EmptyString THEN "ErrScanMustHaveDigest" ELSE "nil"

----------------------------------------------------------------------------
(* internal/sync/sync.go with internal/registry/client.go *)

\* a caller that has built no plan calls syncer.SyncImage(src, dst) itself, as
\* the tests of the package do
CallSyncImage(src, dst) ==
    /\ Idle
    /\ executing = 0
    /\ plan = << >>
    /\ buildErr = "nil"
    /\ Enter(src, dst, "direct")
    /\ UNCHANGED sdkVars
    /\ UNCHANGED auxVars

\* SyncImage: srcClient.GetImage(srcImage), then the branch on desc.MediaType
GetImage ==
    /\ pc = "GetImage"
    /\ IF ~ParseReference(srcImage)
       THEN /\ Return(EmptyString, <<"failed to get source image", "ErrParseImageReference">>)
            /\ trace' = trace \o <<"DetectTopology", "Done">>
            /\ UNCHANGED <<calls, mediaType>>
       ELSE \E ok \in BOOLEAN, mt \in MediaTypes :
              /\ calls' = Append(calls, Request("source", "Get", srcImage, ok))
              /\ IF ~ok
                 THEN /\ Return(EmptyString, <<"failed to get source image", "ErrGetImage">>)
                      /\ trace' = trace \o <<"DetectTopology", "Done">>
                      /\ UNCHANGED mediaType
                 ELSE /\ mediaType' = mt
                      /\ pc' = IF IsIndex(mt) THEN "GetPlatformDigests" ELSE "CopyImage"
                      /\ trace' = trace \o <<"DetectTopology",
                                     IF IsIndex(mt) THEN "MultiPlatformCopy"
                                                    ELSE "SinglePlatformCopy">>
                      /\ UNCHANGED <<retDigest, retErr>>
    /\ UNCHANGED <<via, srcImage, dstImage, platformDigests, visited, platformImages,
                   dstWrites, dstReported>>
    /\ UNCHANGED sdkVars
    /\ UNCHANGED auxVars

\* SyncImage falling back to the single-platform flow when the index cannot be read
GetPlatformDigests_fallback ==
    /\ pc = "GetPlatformDigests"
    /\ ParseReference(srcImage)
    /\ \E ok \in BOOLEAN :
          /\ calls' = Append(calls, Request("source", "Index", srcImage, ok))
          /\ IF ~ok
             THEN /\ pc' = "CopyImage"
                  /\ trace' = Append(trace, "SinglePlatformCopy")
                  /\ UNCHANGED platformDigests
             ELSE /\ \E manifests \in SourceIndexes :
                       platformDigests' = PlatformDigestsOf(manifests)
                  /\ pc' = "range"
                  /\ UNCHANGED trace
    /\ UNCHANGED <<via, srcImage, dstImage, mediaType, visited, platformImages,
                   dstWrites, dstReported, retDigest, retErr>>
    /\ UNCHANGED sdkVars
    /\ UNCHANGED auxVars

\* syncMultiPlatform: srcClient.GetPlatformDigests(srcImage)
GetPlatformDigests ==
    /\ pc = "GetPlatformDigests"
    /\ IF ~ParseReference(srcImage)
       THEN /\ Return(EmptyString, <<"failed to get platform digests", "ErrParseImageReference">>)
            /\ trace' = Append(trace, "Done")
            /\ UNCHANGED <<calls, platformDigests>>
       ELSE \E outcome \in {"ok", "ErrGetImageIndex", "failed to get index manifest"} :
              /\ calls' = Append(calls, Request("source", "Index", srcImage,
                                                outcome # "ErrGetImageIndex"))
              /\ IF outcome # "ok"
                 THEN /\ Return(EmptyString, <<"failed to get platform digests", outcome>>)
                      /\ trace' = Append(trace, "Done")
                      /\ UNCHANGED platformDigests
                 ELSE /\ \E manifests \in SourceIndexes :
                           platformDigests' = PlatformDigestsOf(manifests)
                      /\ pc' = "range"
                      /\ UNCHANGED <<trace, retDigest, retErr>>
    /\ UNCHANGED <<via, srcImage, dstImage, mediaType, visited, platformImages,
                   dstWrites, dstReported>>
    /\ UNCHANGED sdkVars
    /\ UNCHANGED auxVars

\* the v1.Image that remote.Image returns for a reference of the source: by
\* digest, the content with that digest; by tag, whatever the tag points to
SourceImageFor(ref) ==
    IF RefDigest(ref) # EmptyString
    THEN {[digest |-> RefDigest(ref), origin |-> "source"]}
    ELSE {[digest |-> d, origin |-> "source"] : d \in PlatformDigestValues}

\* PushManifestList returning the digest the destination confirmed
ManifestListDigest_reported(idx, reported) == reported

\* the digest PushManifestList returns once the index is written
ManifestListDigest(idx, reported) == IndexDigest(idx)

\* syncSinglePlatform returning the digest the destination reports
ImageDigest_reported(img, reported) == reported

\* the digest syncSinglePlatform returns once the image is copied
ImageDigest(img, reported) == img.digest

\* the String() of the zero v1.Hash that a failed Digest() leaves behind
ZeroHashString == <<":">>

\* syncSinglePlatform handing digest.String() back together with the error
DigestResult_withError(digest, hashed) ==
    IF hashed THEN <<digest, NilErr>>
    ELSE <<ZeroHashString, <<"failed to compute image digest">> >>

\* the end of syncSinglePlatform: digest, err := img.Digest() and the two returns
DigestResult(digest, hashed) ==
    IF hashed THEN <<digest, NilErr>>
    ELSE <<EmptyString, <<"failed to compute image digest">> >>

\* the loop of syncMultiPlatform going on to the next platform when a fetch fails
RangePlatformDigests_continue ==
    /\ pc = "range"
    /\ \E platform \in (DOMAIN platformDigests) \ visited :
         LET digest == platformDigests[platform]
             ref    == srcDigestRef(stripTag(srcImage), digest)
         IN  /\ visited' = visited \cup {platform}
             /\ IF ~supported(platform) \/ ~ParseReference(ref)
                THEN UNCHANGED <<calls, platformImages>>
                ELSE \E ok \in BOOLEAN, img \in SourceImageFor(ref) :
                       /\ calls' = Append(calls, Request("source", "Image", ref, ok))
                       /\ platformImages' = IF ok THEN MapPut(platformImages, platform, img)
                                                  ELSE platformImages
    /\ UNCHANGED <<pc, retDigest, retErr, trace, via, srcImage, dstImage, mediaType,
                   platformDigests, dstWrites, dstReported>>
    /\ UNCHANGED sdkVars
    /\ UNCHANGED auxVars

\* the loop of syncMultiPlatform copying each platform image to the destination
\* as soon as it is fetched
RangePlatformDigests_copyEach ==
    /\ pc = "range"
    /\ \E platform \in (DOMAIN platformDigests) \ visited :
         LET digest == platformDigests[platform]
             ref    == srcDigestRef(stripTag(srcImage), digest)
         IN  /\ visited' = visited \cup {platform}
             /\ IF ~supported(platform)
                THEN UNCHANGED <<pc, calls, platformImages, retDigest, retErr, trace,
                                 dstWrites>>
                ELSE IF ~ParseReference(ref)
                THEN /\ Return(EmptyString,
                               <<"failed to fetch platform", "ErrParseSourceReference">>)
                     /\ trace' = Append(trace, "Done")
                     /\ UNCHANGED <<calls, platformImages, dstWrites>>
                ELSE \E ok \in BOOLEAN, img \in SourceImageFor(ref) :
                       /\ calls' = Append(calls, Request("source", "Image", ref, ok))
                       /\ IF ok
                          THEN /\ platformImages' = MapPut(platformImages, platform, img)
                               /\ dstWrites' = Append(dstWrites,
                                      [ref |-> dstImage, kind |-> "image",
                                       manifests |-> << >>, digest |-> img.digest])
                               /\ UNCHANGED <<pc, retDigest, retErr, trace>>
                          ELSE /\ Return(EmptyString,
                                         <<"failed to fetch platform",
                                           "failed to get source image">>)
                               /\ trace' = Append(trace, "Done")
                               /\ UNCHANGED <<platformImages, dstWrites>>
    /\ UNCHANGED <<via, srcImage, dstImage, mediaType, platformDigests, dstReported>>
    /\ UNCHANGED sdkVars
    /\ UNCHANGED auxVars

\* syncMultiPlatform: one iteration of the loop over platformDigests, with
\* srcClient.FetchPlatformImage(stripTag(srcImage), digest) for a supported platform
RangePlatformDigests ==
    /\ pc = "range"
    /\ \E platform \in (DOMAIN platformDigests) \ visited :
         LET digest == platformDigests[platform]
             ref    == srcDigestRef(stripTag(srcImage), digest)
         IN  /\ visited' = visited \cup {platform}
             /\ IF ~supported(platform)
                THEN UNCHANGED <<pc, calls, platformImages, retDigest, retErr, trace>>
                ELSE IF ~ParseReference(ref)
                THEN /\ Return(EmptyString,
                               <<"failed to fetch platform", "ErrParseSourceReference">>)
                     /\ trace' = Append(trace, "Done")
                     /\ UNCHANGED <<calls, platformImages>>
                ELSE \E ok \in BOOLEAN, img \in SourceImageFor(ref) :
                       /\ calls' = Append(calls, Request("source", "Image", ref, ok))
                       /\ IF ok
                          THEN /\ platformImages' = MapPut(platformImages, platform, img)
                               /\ UNCHANGED <<pc, retDigest, retErr, trace>>
                          ELSE /\ Return(EmptyString,
                                         <<"failed to fetch platform",
                                           "failed to get source image">>)
                               /\ trace' = Append(trace, "Done")
                               /\ UNCHANGED platformImages
    /\ UNCHANGED <<via, srcImage, dstImage, mediaType, platformDigests, dstWrites,
                   dstReported>>
    /\ UNCHANGED sdkVars
    /\ UNCHANGED auxVars

\* what a remote.WriteIndex that fails leaves in the destination: it uploads
\* the images of the index one after the other and the index last, so the
\* first n images are there and the index is not
Children(idx, n) ==
    [i \in 1..n |-> [ref |-> dstImage, kind |-> "child",
                     manifests |-> << >>, digest |-> idx[i].digest]]

\* syncMultiPlatform after the loop: dstClient.PushManifestList(dstImage, platformImages)
PushManifestList ==
    /\ pc = "range"
    /\ visited = DOMAIN platformDigests
    /\ trace' = Append(trace, "Done")
    /\ IF ~ParseReference(dstImage)
       THEN /\ Return(EmptyString,
                      <<"failed to create manifest list", "ErrParseManifestReference">>)
            /\ UNCHANGED <<calls, dstWrites, dstReported>>
       ELSE \E order \in Orders(DOMAIN platformImages), written \in BOOLEAN,
               reported \in DstReports, hashed \in BOOLEAN :
              LET platforms == SortStrings(order)
                  idx       == AppendManifests(platforms, platformImages)
              IN  /\ calls' = Append(calls, Request("destination", "WriteIndex",
                                                    dstImage, written))
                  /\ IF ~written
                     THEN /\ Return(EmptyString, <<"failed to create manifest list",
                                                   "failed to push manifest list">>)
                          /\ \E n \in 0..Len(idx) : dstWrites' = dstWrites \o Children(idx, n)
                          /\ UNCHANGED dstReported
                     ELSE /\ dstWrites' = Append(dstWrites,
                                [ref |-> dstImage, kind |-> "index",
                                 manifests |-> idx, digest |-> EmptyString])
                          /\ dstReported' = reported
                          /\ IF ~hashed
                             THEN Return(EmptyString,
                                         <<"failed to create manifest list",
                                           "failed to get manifest list digest">>)
                             ELSE Return(ManifestListDigest(idx, reported), NilErr)
    /\ UNCHANGED <<via, srcImage, dstImage, mediaType, platformDigests, visited,
                   platformImages>>
    /\ UNCHANGED sdkVars
    /\ UNCHANGED auxVars

\* syncSinglePlatform: srcClient.CopyImage(srcImage, dstImage, dstClient), img.Digest()
CopyImage ==
    /\ pc = "CopyImage"
    /\ trace' = Append(trace, "Done")
    /\ IF ~ParseReference(srcImage)
       THEN /\ Return(EmptyString, <<"failed to copy image", "ErrParseSourceReference">>)
            /\ UNCHANGED <<calls, dstWrites, dstReported>>
       ELSE IF ~ParseReference(dstImage)
       THEN /\ Return(EmptyString, <<"failed to copy image", "ErrParseDestinationReference">>)
            /\ UNCHANGED <<calls, dstWrites, dstReported>>
       ELSE \E fetched \in BOOLEAN, img \in SourceImageFor(srcImage),
               written \in BOOLEAN, reported \in DstReports, hashed \in BOOLEAN :
              IF ~fetched
              THEN /\ calls' = Append(calls, Request("source", "Image", srcImage, FALSE))
                   /\ Return(EmptyString, <<"failed to copy image",
                                            "failed to get source image">>)
                   /\ UNCHANGED <<dstWrites, dstReported>>
              ELSE /\ calls' = calls \o <<Request("source", "Image", srcImage, TRUE),
                                          Request("destination", "Write", dstImage, written)>>
                   /\ IF ~written
                      THEN /\ Return(EmptyString, <<"failed to copy image",
                                                    "failed to write destination image">>)
                           /\ UNCHANGED <<dstWrites, dstReported>>
                      ELSE /\ dstWrites' = Append(dstWrites,
                                 [ref |-> dstImage, kind |-> "image",
                                  manifests |-> << >>, digest |-> img.digest])
                           /\ dstReported' = reported
                           /\ LET result == DigestResult(ImageDigest(img, reported), hashed)
                              IN  Return(result[1], result[2])
    /\ UNCHANGED <<via, srcImage, dstImage, mediaType, platformDigests, visited,
                   platformImages>>
    /\ UNCHANGED sdkVars
    /\ UNCHANGED auxVars

\* the caller of Plan.Execute(ctx) cancels ctx while Sync.execute is inside
\* syncer.SyncImage.  Sync.execute receives the context as "_" and
\* Syncer.SyncImage takes none: no step of the sync reads ctxDone.
CancelContext ==
    /\ executing # 0
    /\ pc # "returned"
    /\ ~ctxDone
    /\ ctxDone' = TRUE
    /\ UNCHANGED <<pc, via, srcImage, dstImage, mediaType, platformDigests, visited,
                   platformImages, calls, trace, dstWrites, dstReported, retDigest,
                   retErr>>
    /\ UNCHANGED sdkVars
    /\ UNCHANGED <<clientVars, retryVars, stripCall, raceVars, parseVars, planVars, digestsVars>>

----------------------------------------------------------------------------
(* internal/registry/client.go: a client, its options, its calls *)

\* largest number of calls made on one client
MaxCalls == 2

ClientNames == {"source", "destination"}

\* registry.NewClient(host, username, password, log)
NewClient(host, username, password) ==
    [host |-> host, username |-> username, password |-> password]

NilRegistry == [nil |-> TRUE, host |-> EmptyString, username |-> EmptyString,
                password |-> EmptyString]

\* the sdk.Registry a plan may hold for the domain of an image, or none
Registries ==
    {[nil |-> FALSE, host |-> <<"g">>, username |-> u, password |-> p] :
        u \in {EmptyString, <<"u">>}, p \in {EmptyString, <<"p">>}} \cup {NilRegistry}

\* Sync.execute: the client for a registry of the plan, or the one without
\* credentials when the plan has no registry for the image's domain
ClientFor(registry) ==
    IF ~registry.nil
    THEN NewClient(registry.host, registry.username, registry.password)
    ELSE NewClient(EmptyString, EmptyString, EmptyString)

\* a retry list that also holds 404
RetryStatusCodes_with404 == {404, 429, 500, 502, 503, 504}

\* remote.WithRetryStatusCodes(...)
RetryStatusCodes == {429, 500, 502, 503, 504}

\* remote.WithRetryBackoff(...): Duration in milliseconds, Jitter in thousandths
RetryBackoff == [Duration |-> 1000, Factor |-> 2, Jitter |-> 100, Steps |-> 5]

NoAuth == [has |-> FALSE, Username |-> EmptyString, Password |-> EmptyString]

\* credentials attached as soon as one of the two is set
HasCredentials_either(client) ==
    client.username # EmptyString \/ client.password # EmptyString

\* the condition of remoteOptions on the client's credentials
HasCredentials(client) ==
    client.username # EmptyString /\ client.password # EmptyString

\* Client.remoteOptions
remoteOptions(client) ==
    [retryStatusCodes |-> RetryStatusCodes,
     retryBackoff |-> RetryBackoff,
     auth |-> IF HasCredentials(client)
              THEN [has |-> TRUE, Username |-> client.username,
                    Password |-> client.password]
              ELSE NoAuth]

\* a request as the library sends it for a client: remote.Get, remote.Image,
\* remote.Write called with client.remoteOptionsWithContext(ctx)...
Send(by, verb, ref) ==
    [by |-> by, verb |-> verb, ref |-> ref, opts |-> remoteOptions(clients[by])]

\* how a request ends once the library has given up retrying: a value, a
\* transport.Error carrying the status of the response, or an error that is
\* no transport.Error (no response at all)
ErrorStatuses == {401, 403, 404, 429, 500}

Outcomes ==
    {[kind |-> "ok", status |-> 200], [kind |-> "network", status |-> 0]}
        \cup {[kind |-> "transport", status |-> st] : st \in ErrorStatuses}

NoOutcome == [kind |-> "none", status |-> 0]

\* references the calls of the model are made with
ClientRefs == {<<"g", "/", "b", ":", "t">>, <<"i", "@", "@", "@", "r">>, EmptyString}

\* CheckExists taking every transport.Error for "not found"
ClientCheckExists_anyTransportError(imageRef, outcome) ==
    IF ~ParseReference(imageRef) THEN <<FALSE, <<"ErrParseImageReference">> >>
    ELSE IF outcome.kind = "ok" THEN <<TRUE, NilErr>>
    ELSE IF outcome.kind = "transport" THEN <<FALSE, NilErr>>
    ELSE <<FALSE, <<"failed to check image existence (client)">> >>

\* Client.CheckExists: <<exists, err>> for a reference and the outcome of remote.Get
ClientCheckExists(imageRef, outcome) ==
    IF ~ParseReference(imageRef) THEN <<FALSE, <<"ErrParseImageReference">> >>
    ELSE IF outcome.kind = "ok" THEN <<TRUE, NilErr>>
    ELSE IF outcome.kind = "transport" /\ outcome.status = 404 THEN <<FALSE, NilErr>>
    ELSE <<FALSE, <<"failed to check image existence (client)">> >>

\* Syncer.CheckExists, given what dstClient.CheckExists returned
SyncerCheckExists(result) ==
    IF result[2] # NilErr
    THEN <<FALSE, <<"failed to check image existence">> \o result[2]>>
    ELSE <<result[1], NilErr>>

\* the client once one of its methods has returned: no method assigns a field
AfterCall_dropsPassword(client) == [client EXCEPT !.password = EmptyString]

AfterCall(client) == client

\* Sync.execute has built its two clients
ClientInit ==
    \E sr \in Registries, dr \in Registries :
        /\ clients = [c \in ClientNames |->
                        IF c = "source" THEN ClientFor(sr) ELSE ClientFor(dr)]
        /\ created = clients
        /\ made = [c \in ClientNames |-> 0]
        /\ sent = << >>
        /\ answer = [op |-> "none", by |-> "none", ref |-> EmptyString,
                     dst |-> EmptyString,
                     outcome |-> NoOutcome, exists |-> FALSE, err |-> NilErr]

Answer(op, by, ref, outcome, result) ==
    [op |-> op, by |-> by, ref |-> ref, dst |-> EmptyString, outcome |-> outcome,
     exists |-> result[1], err |-> result[2]]

\* the frame of a call made on the clients in cs
Called(cs) ==
    /\ clients' = [c \in ClientNames |-> IF c \in cs THEN AfterCall(clients[c])
                                         ELSE clients[c]]
    /\ made' = [c \in ClientNames |-> IF c \in cs THEN made[c] + 1 ELSE made[c]]
    /\ UNCHANGED created
    /\ UNCHANGED <<syncVars, sdkVars, ctxDone, retryVars, stripCall, raceVars, parseVars, planVars, digestsVars>>

\* client.CheckExists(ctx, imageRef)
CallCheckExists(c, imageRef) ==
    /\ made[c] < MaxCalls
    /\ IF ~ParseReference(imageRef)
       THEN /\ sent' = << >>
            /\ answer' = Answer("CheckExists", c, imageRef, NoOutcome,
                                ClientCheckExists(imageRef, NoOutcome))
       ELSE \E outcome \in Outcomes :
              /\ sent' = <<Send(c, "Get", imageRef)>>
              /\ answer' = Answer("CheckExists", c, imageRef, outcome,
                                  ClientCheckExists(imageRef, outcome))
    /\ Called({c})

\* syncer.CheckExists(imageRef)
CallSyncerCheckExists(imageRef) ==
    /\ made["destination"] < MaxCalls
    /\ IF ~ParseReference(imageRef)
       THEN /\ sent' = << >>
            /\ answer' = Answer("Syncer.CheckExists", "destination", imageRef, NoOutcome,
                                SyncerCheckExists(ClientCheckExists(imageRef, NoOutcome)))
       ELSE \E outcome \in Outcomes :
              /\ sent' = <<Send("destination", "Get", imageRef)>>
              /\ answer' = Answer("Syncer.CheckExists", "destination", imageRef, outcome,
                                  SyncerCheckExists(ClientCheckExists(imageRef, outcome)))
    /\ Called({"destination"})

\* CopyImage and CopyIndex parsing the destination reference first
CopyParseError_destinationFirst(srcRef, dstRef) ==
    IF ~ParseReference(dstRef) THEN <<"ErrParseDestinationReference">>
    ELSE IF ~ParseReference(srcRef) THEN <<"ErrParseSourceReference">>
    ELSE NilErr

\* the two name.ParseReference calls that open CopyImage and CopyIndex
CopyParseError(srcRef, dstRef) ==
    IF ~ParseReference(srcRef) THEN <<"ErrParseSourceReference">>
    ELSE IF ~ParseReference(dstRef) THEN <<"ErrParseDestinationReference">>
    ELSE NilErr

\* srcClient.CopyImage(ctx, srcRef, dstRef, dstClient): the image is read with
\* the options of the source client and written with those of dstClient
CallCopyImage(srcRef, dstRef) ==
    /\ made["source"] < MaxCalls
    /\ made["destination"] < MaxCalls
    /\ IF CopyParseError(srcRef, dstRef) # NilErr
       THEN /\ sent' = << >>
            /\ answer' = [Answer("CopyImage", "source", srcRef, NoOutcome,
                                 <<FALSE, CopyParseError(srcRef, dstRef)>>)
                            EXCEPT !.dst = dstRef]
       ELSE \E read \in Outcomes, written \in Outcomes :
              IF read.kind # "ok"
              THEN /\ sent' = <<Send("source", "Image", srcRef)>>
                   /\ answer' = [Answer("CopyImage", "source", srcRef, read,
                                        <<FALSE, <<"failed to get source image">> >>)
                                   EXCEPT !.dst = dstRef]
              ELSE /\ sent' = <<Send("source", "Image", srcRef),
                                Send("destination", "Write", dstRef)>>
                   /\ answer' = [Answer("CopyImage", "source", srcRef, written,
                                        IF written.kind = "ok" THEN <<TRUE, NilErr>>
                                        ELSE <<FALSE, <<"failed to write destination image">> >>)
                                   EXCEPT !.dst = dstRef]
    /\ Called({"source", "destination"})

\* srcClient.CopyIndex(ctx, srcRef, dstRef, dstClient)
CallCopyIndex(srcRef, dstRef) ==
    /\ made["source"] < MaxCalls
    /\ made["destination"] < MaxCalls
    /\ IF CopyParseError(srcRef, dstRef) # NilErr
       THEN /\ sent' = << >>
            /\ answer' = [Answer("CopyIndex", "source", srcRef, NoOutcome,
                                 <<FALSE, CopyParseError(srcRef, dstRef)>>)
                            EXCEPT !.dst = dstRef]
       ELSE \E read \in Outcomes, written \in Outcomes :
              IF read.kind # "ok"
              THEN /\ sent' = <<Send("source", "Index", srcRef)>>
                   /\ answer' = [Answer("CopyIndex", "source", srcRef, read,
                                        <<FALSE, <<"failed to get source index">> >>)
                                   EXCEPT !.dst = dstRef]
              ELSE /\ sent' = <<Send("source", "Index", srcRef),
                                Send("destination", "WriteIndex", dstRef)>>
                   /\ answer' = [Answer("CopyIndex", "source", srcRef, written,
                                        IF written.kind = "ok" THEN <<TRUE, NilErr>>
                                        ELSE <<FALSE, <<"failed to write destination index">> >>)
                                   EXCEPT !.dst = dstRef]
    /\ Called({"source", "destination"})

\* the methods of Client that take one reference, parse it, and make one
\* request for it: the request, the error for a reference that does not
\* parse, the error for a request that failed
ReferenceMethods ==
    {[op |-> "GetImage", verb |-> "Get",
      parse |-> "ErrParseImageReference", failed |-> "ErrGetImage"],
     [op |-> "GetPlatformDigests", verb |-> "Index",
      parse |-> "ErrParseImageReference", failed |-> "ErrGetImageIndex"],
     [op |-> "FetchPlatformImage", verb |-> "Image",
      parse |-> "ErrParseSourceReference", failed |-> "failed to get source image"],
     [op |-> "GetDigest", verb |-> "Get",
      parse |-> "ErrParseImageReference", failed |-> "ErrGetImage"],
     [op |-> "PushManifestList", verb |-> "WriteIndex",
      parse |-> "ErrParseManifestReference", failed |-> "failed to push manifest list"],
     [op |-> "GetImageHandle", verb |-> "Image",
      parse |-> "ErrParseImageReference", failed |-> "ErrGetImage"]}

\* how the request of such a method ends: these methods tell a value from an
\* error and nothing more
MethodOutcomes ==
    {[kind |-> "ok", status |-> 200], [kind |-> "network", status |-> 0],
     [kind |-> "transport", status |-> 404]}

\* client.GetImage(ctx, imageRef), GetPlatformDigests, GetDigest,
\* GetImageHandle, PushManifestList(ctx, manifestRef, images), and
\* FetchPlatformImage(ctx, srcRef, digest) with imageRef the srcRef@digest it builds
CallReferenceMethod(c, method, imageRef) ==
    /\ made[c] < MaxCalls
    /\ IF ~ParseReference(imageRef)
       THEN /\ sent' = << >>
            /\ answer' = Answer(method.op, c, imageRef, NoOutcome,
                                <<FALSE, <<method.parse>> >>)
       ELSE \E outcome \in MethodOutcomes :
              /\ sent' = <<Send(c, method.verb, imageRef)>>
              /\ answer' = Answer(method.op, c, imageRef, outcome,
                                  IF outcome.kind = "ok" THEN <<TRUE, NilErr>>
                                  ELSE <<FALSE, <<method.failed>> >>)
    /\ Called({c})

----------------------------------------------------------------------------
(* internal/registry/client.go: one request under the retry options *)

\* what a registry may answer to an attempt; 0 stands for no response
Statuses == {200, 401, 404, 429, 500, 502, 503, 504, 0}

\* the random factor of a jittered sleep, in thousandths: rand.Float64() in [0, 1)
RandDraws == {0, 500, 999}

\* whether an attempt with this status is followed by another one: a status of
\* the list given to remote.WithRetryStatusCodes is, any other status is not;
\* for an attempt that got no response the options say nothing, and the
\* library's own predicate decides
Retryable(status, opts) ==
    IF status = 0 THEN BOOLEAN ELSE {status \in opts.retryStatusCodes}

\* Backoff.Step() with Factor 2.0 and Jitter 0.1: the duration to sleep now,
\* and the backoff left for the next step
StepDuration(b) == b.Duration

\* a backoff that does not grow
StepBackoff_constant(b, opts) == [Duration |-> b.Duration, Steps |-> b.Steps - 1]

StepBackoff(b, opts) ==
    [Duration |-> b.Duration * opts.retryBackoff.Factor, Steps |-> b.Steps - 1]

\* wait.Jitter(duration, maxFactor), the random factor drawn as rand thousandths
Jitter(duration, maxFactor, rand) ==
    duration + (rand * maxFactor * duration) \div 1000000

\* the options every request of a client is made with
RequestOptions == remoteOptions(NewClient(<<"g">>, EmptyString, EmptyString))

\* a request enters the retry loop with a copy of the configured backoff; a
\* reference that does not parse never gets there
StartRequest(ref) ==
    /\ rt \in {"idle", "done"}
    /\ rtRef' = ref
    /\ attempts' = << >>
    /\ delays' = << >>
    /\ slept' = 0
    /\ backoff' = [Duration |-> RequestOptions.retryBackoff.Duration,
                   Steps |-> RequestOptions.retryBackoff.Steps]
    /\ IF ParseReference(ref)
       THEN rt' = "send" /\ rtErr' = "nil"
       ELSE rt' = "done" /\ rtErr' = "ErrParseImageReference"
    /\ UNCHANGED <<syncVars, sdkVars, ctxDone, clientVars, stripCall, raceVars, parseVars, planVars, digestsVars>>

\* one attempt: the request is sent and answered; the loop grants another
\* attempt to a retryable one while more than one step is left
RoundTrip ==
    /\ rt = "send"
    /\ \E status \in Statuses :
         \E retry \in Retryable(status, RequestOptions) :
             /\ attempts' = Append(attempts, status)
             /\ IF retry /\ backoff.Steps > 1
                THEN rt' = "sleep" /\ rtErr' = "nil"
                ELSE /\ rt' = "done"
                     /\ rtErr' = IF status = 200 THEN "nil"
                                 ELSE IF status = 0 THEN "network"
                                 ELSE "transport.Error"
    /\ UNCHANGED <<rtRef, backoff, delays, slept>>
    /\ UNCHANGED <<syncVars, sdkVars, ctxDone, clientVars, stripCall, raceVars, parseVars, planVars, digestsVars>>

\* time.Sleep(backoff.Step()) between two attempts
Sleep ==
    /\ rt = "sleep"
    /\ \E rand \in RandDraws :
         slept' = Jitter(StepDuration(backoff), RequestOptions.retryBackoff.Jitter, rand)
    /\ delays' = Append(delays, StepDuration(backoff))
    /\ backoff' = StepBackoff(backoff, RequestOptions)
    /\ rt' = "send"
    /\ UNCHANGED <<rtRef, attempts, rtErr>>
    /\ UNCHANGED <<syncVars, sdkVars, ctxDone, clientVars, stripCall, raceVars, parseVars, planVars, digestsVars>>

----------------------------------------------------------------------------
(* internal/sync/sync.go: stripTag on its own *)

\* the parts references are written from: [host[:port]/]path[:tag][@digest]
StripHosts == {EmptyString, <<"h">>, <<"h", ":", "5">>, <<"r", "e", "g", "i", "s", "t", "r", "y", ".", "l", "o", "c", "a", "l", ":", "5", "0", "0", "0">>}
StripPaths == {<<"a", "p", "p">>, <<"a">>, <<"a", "/", "b">>}
StripTags == {EmptyString, <<"v", "1">>, <<"t">>}
StripDigests == {EmptyString, <<"s", ":", "1">>, <<"s", "h", "a", "2", "5", "6", ":", "a", "b", "c">>}

\* host/path, or path alone
Repository(host, path) ==
    IF host = EmptyString THEN path ELSE host \o <<"/">> \o path

\* the reference as a caller writes it
Reference(host, path, tag, digest) ==
    Repository(host, path)
        \o (IF tag = EmptyString THEN EmptyString ELSE <<":">> \o tag)
        \o (IF digest = EmptyString THEN EmptyString ELSE <<"@">> \o digest)

InitStripTag ==
    /\ SyncInit
    /\ ctxDone = FALSE
    /\ DigestsOff
    /\ PlanOff
    /\ ClientOff
    /\ RetryOff
    /\ ParseOff
    /\ RaceOff
    /\ \E host \in StripHosts, path \in StripPaths, tag \in StripTags,
          digest \in StripDigests :
          stripCall = [host |-> host, path |-> path, tag |-> tag, digest |-> digest,
                       imageRef |-> Reference(host, path, tag, digest),
                       done |-> FALSE, result |-> EmptyString]

\* stripTag(imageRef)
CallStripTag ==
    /\ ~stripCall.done
    /\ stripCall' = [stripCall EXCEPT !.done = TRUE, !.result = stripTag(stripCall.imageRef)]
    /\ UNCHANGED <<syncVars, sdkVars, ctxDone, clientVars, retryVars, raceVars, parseVars, planVars, digestsVars>>

----------------------------------------------------------------------------
(* internal/registry/client.go: GetPlatformDigests on its own *)

\* v1.Platform with its Variant; a descriptor of an index may have none
VariantPlatform(os, arch, variant) ==
    [has |-> TRUE, os |-> os, architecture |-> arch, variant |-> variant]

NoVariantPlatform ==
    [has |-> FALSE, os |-> EmptyString, architecture |-> EmptyString,
     variant |-> EmptyString]

\* the platforms of the descriptors: two of them differ by their variant alone
IndexPlatforms ==
    {VariantPlatform(linux, amd64, EmptyString), VariantPlatform(linux, arm, <<"v", "6">>),
     VariantPlatform(linux, arm, <<"v", "7">>), NoVariantPlatform}

\* manifest.Manifests of the source index, in manifest order
IndexManifests ==
    UNION {[1..n -> [platform : IndexPlatforms, digest : PlatformDigestValues]] :
              n \in 0..MaxManifests}

\* the references the call is made with: one that parses, one that does not
DigestsReferences == {<<"h", ":", "5", "/", "a", "@", "s", ":", "0">>, EmptyString}

InitDigests ==
    /\ SyncInit
    /\ ctxDone = FALSE
    /\ PlanOff
    /\ ClientOff
    /\ RetryOff
    /\ ParseOff
    /\ RaceOff
    /\ stripCall = << >>
    /\ \E imageRef \in DigestsReferences, manifests \in IndexManifests :
          digestsCall = [imageRef |-> imageRef, manifests |-> manifests,
                         done |-> FALSE, requested |-> FALSE,
                         result |-> EmptyMap, err |-> NilErr]

\* client.GetPlatformDigests(ctx, imageRef)
CallGetPlatformDigests ==
    /\ ~digestsCall.done
    /\ IF ~ParseReference(digestsCall.imageRef)
       THEN digestsCall' = [digestsCall EXCEPT !.done = TRUE,
                                               !.err = <<"ErrParseImageReference">>]
       ELSE \E outcome \in {"ok", "ErrGetImageIndex", "failed to get index manifest"} :
              digestsCall' =
                  [digestsCall EXCEPT
                      !.done = TRUE,
                      !.requested = TRUE,
                      !.err = IF outcome = "ok" THEN NilErr ELSE <<outcome>>,
                      !.result = IF outcome = "ok"
                                 THEN PlatformDigestsOf(digestsCall.manifests)
                                 ELSE EmptyMap]
    /\ UNCHANGED <<syncVars, sdkVars, ctxDone, clientVars, retryVars, stripCall,
                   raceVars, parseVars, planVars>>

----------------------------------------------------------------------------
(* internal/sync/sync.go: two SyncImage calls on one destination reference *)

\* the two calls; a Syncer has no field that a call writes, each call works on
\* its own locals
Syncers == {1, 2}

NoManifest == [kind |-> "none", manifests |-> << >>, digest |-> EmptyString]

\* what the source of a call may hold: an image, or an index of platform images
RaceImages == {[digest |-> d, origin |-> "source"] : d \in PlatformDigestValues}

RaceImageMaps ==
    {[pf \in {PlatformAMD64, PlatformARM64} |->
        [digest |-> IF pf = PlatformAMD64 THEN d ELSE e, origin |-> "source"]] :
            d \in PlatformDigestValues, e \in PlatformDigestValues}
      \cup {[pf \in {PlatformAMD64} |-> [digest |-> d, origin |-> "source"]] :
            d \in PlatformDigestValues}

\* the manifest a call puts at the destination reference, with its local digest
ImageManifest(img) ==
    [kind |-> "image", manifests |-> << >>, digest |-> ImageDigest(img, EmptyString)]

IndexManifest(idx) ==
    [kind |-> "index", manifests |-> idx, digest |-> ManifestListDigest(idx, EmptyString)]

\* the digests remote.Write and remote.WriteIndex upload before they put the manifest
Uploads(manifest) ==
    IF manifest.kind = "index"
    THEN [i \in 1..Len(manifest.manifests) |-> manifest.manifests[i].digest]
    ELSE <<manifest.digest>>

InitRace ==
    /\ SyncInit
    /\ ctxDone = FALSE
    /\ DigestsOff
    /\ PlanOff
    /\ ClientOff
    /\ RetryOff
    /\ ParseOff
    /\ stripCall = << >>
    /\ ops = [p \in Syncers |->
                [pc |-> "GetImage", flow |-> "none", manifest |-> NoManifest,
                 uploaded |-> 0, digest |-> EmptyString, err |-> NilErr]]
    /\ dstTag = NoManifest
    /\ dstBlobs = {}
    /\ putOrder = << >>

RaceFrame == UNCHANGED <<syncVars, sdkVars, ctxDone, clientVars, retryVars, stripCall, parseVars, planVars, digestsVars>>

\* return "", err
Fails(p, err) == ops' = [ops EXCEPT ![p].pc = "returned", ![p].err = err]

\* SyncImage of call p: srcClient.GetImage and the branch on the media type
ConcurrentGetImage(p) ==
    /\ ops[p].pc = "GetImage"
    /\ \E ok \in BOOLEAN, mt \in MediaTypes :
          IF ~ok THEN Fails(p, <<"failed to get source image">>)
          ELSE ops' = [ops EXCEPT ![p].pc = "fetch",
                                  ![p].flow = IF IsIndex(mt) THEN "multi" ELSE "single"]
    /\ UNCHANGED <<dstTag, dstBlobs, putOrder>>
    /\ RaceFrame

\* call p reads from its source what it will push: the platform images, which
\* PushManifestList sorts and assembles, or the image
ConcurrentFetch(p) ==
    /\ ops[p].pc = "fetch"
    /\ \E ok \in BOOLEAN :
          IF ~ok THEN Fails(p, <<"failed to fetch">>)
          ELSE IF ops[p].flow = "multi"
          THEN \E images \in RaceImageMaps : \E order \in Orders(DOMAIN images) :
                  ops' = [ops EXCEPT
                            ![p].pc = "upload",
                            ![p].manifest = IndexManifest(
                                AppendManifests(SortStrings(order), images))]
          ELSE \E img \in RaceImages :
                  ops' = [ops EXCEPT ![p].pc = "upload",
                                     ![p].manifest = ImageManifest(img)]
    /\ UNCHANGED <<dstTag, dstBlobs, putOrder>>
    /\ RaceFrame

\* remote.Write, remote.WriteIndex of call p: the next upload that precedes the manifest
ConcurrentUpload(p) ==
    /\ ops[p].pc = "upload"
    /\ \E ok \in BOOLEAN :
          IF ~ok
          THEN /\ Fails(p, <<"failed to push">>)
               /\ UNCHANGED dstBlobs
          ELSE LET n == ops[p].uploaded + 1
               IN  /\ dstBlobs' = dstBlobs \cup {Uploads(ops[p].manifest)[n]}
                   /\ ops' = [ops EXCEPT
                                ![p].uploaded = n,
                                ![p].pc = IF n = Len(Uploads(ops[p].manifest))
                                          THEN "put" ELSE "upload"]
    /\ UNCHANGED <<dstTag, putOrder>>
    /\ RaceFrame

\* the digest a call returns once its push is done, resolved from the destination
PushedDigest_resolved(p) == dstTag.digest

\* the digest a call returns once its push is done: digest of what it holds
PushedDigest(p) == ops[p].manifest.digest

\* remote.Write, remote.WriteIndex of call p: the manifest is put at the
\* destination reference; the registry keeps the manifest it was sent last
ConcurrentPut(p) ==
    /\ ops[p].pc = "put"
    /\ \E ok \in BOOLEAN :
          IF ~ok
          THEN /\ Fails(p, <<"failed to push">>)
               /\ UNCHANGED <<dstTag, putOrder>>
          ELSE /\ dstTag' = ops[p].manifest
               /\ putOrder' = Append(putOrder, p)
               /\ ops' = [ops EXCEPT ![p].pc = "Digest"]
    /\ UNCHANGED dstBlobs
    /\ RaceFrame

\* idx.Digest(), img.Digest() of call p and its return
ConcurrentDigest(p) ==
    /\ ops[p].pc = "Digest"
    /\ \E hashed \in BOOLEAN :
          IF ~hashed THEN Fails(p, <<"failed to compute digest">>)
          ELSE ops' = [ops EXCEPT ![p].pc = "returned", ![p].digest = PushedDigest(p)]
    /\ UNCHANGED <<dstTag, dstBlobs, putOrder>>
    /\ RaceFrame

\* a step of call p
ConcurrentStep(p) ==
    \/ ConcurrentGetImage(p)
    \/ ConcurrentFetch(p)
    \/ ConcurrentUpload(p)
    \/ ConcurrentPut(p)
    \/ ConcurrentDigest(p)

----------------------------------------------------------------------------
(* internal/reference: Parse, over distribution/reference and go-digest *)

LowerLetters == {"a", "b", "c", "d", "e", "f", "g", "h", "i", "j", "k", "l", "m", "n", "o", "p", "q", "r", "s", "t", "u", "v", "w", "x", "y", "z"}
UpperLetters == {"A", "B", "C", "D", "E", "F", "G", "H", "I", "J", "K", "L", "M", "N", "O", "P", "Q", "R", "S", "T", "U", "V", "W", "X", "Y", "Z"}
Digits == {"0", "1", "2", "3", "4", "5", "6", "7", "8", "9"}
\* [a-f0-9], [a-z0-9] and \w of the libraries' expressions
HexLower == Digits \cup {"a", "b", "c", "d", "e", "f"}
AlphaNumeric == LowerLetters \cup Digits
Word == LowerLetters \cup UpperLetters \cup Digits \cup {"_"}

AllIn(s, S) == \A i \in 1..Len(s) : s[i] \in S

\* strings.ToLower(s) == s
IsLower(s) == \A i \in 1..Len(s) : s[i] \notin UpperLetters

\* strings.LastIndex(s, c) for a one-byte c, counted from 1; 0 when absent
RECURSIVE LastIndexFrom(_, _, _)
LastIndexFrom(s, c, i) ==
    IF i < 1 THEN 0
    ELSE IF s[i] = c THEN i
    ELSE LastIndexFrom(s, c, i - 1)

LastIndex(s, c) == LastIndexFrom(s, c, Len(s))

\* strings.Split(s, c) for a one-byte c
RECURSIVE Split(_, _)
Split(s, c) ==
    LET i == Index(s, c)
    IN  IF i = 0 THEN <<s>>
        ELSE <<SubSeq(s, 1, i - 1)>> \o Split(SubSeq(s, i + 1, Len(s)), c)

\* number of hexadecimal characters of a sha256 digest; the model writes
\* digests with HexLen characters where the registries write 64
HexLen == 2

sha256 == <<"s", "h", "a", "2", "5", "6">>
dockerIO == <<"d", "o", "c", "k", "e", "r", ".", "i", "o">>
library == <<"l", "i", "b", "r", "a", "r", "y">>
localhost == <<"l", "o", "c", "a", "l", "h", "o", "s", "t">>

\* the algorithms go-digest has registered; all of the model have HexLen characters
Algorithms == {sha256}

\* digest.Parse(s) succeeds: algorithm ":" encoded, the algorithm registered,
\* the encoded part lower-case hexadecimal of the algorithm's length
digestParse(s) ==
    LET i == Index(s, ":")
    IN  /\ i > 1
        /\ i < Len(s)
        /\ SubSeq(s, 1, i - 1) \in Algorithms
        /\ Len(s) - i = HexLen
        /\ AllIn(SubSeq(s, i + 1, Len(s)), HexLower)

\* anchoredIdentifierRegexp: a bare image ID, which is no name
IsIdentifier(s) == Len(s) = HexLen /\ AllIn(s, HexLower)

\* splitDockerDomain(name): <<domain, remainder>>
splitDockerDomain(name) ==
    LET i == Index(name, "/")
        first == SubSeq(name, 1, i - 1)
        split == IF i = 0 \/ (Index(first, ".") = 0 /\ Index(first, ":") = 0
                              /\ first # localhost /\ IsLower(first))
                 THEN <<dockerIO, name>>
                 ELSE <<first, SubSeq(name, i + 1, Len(name))>>
        remainder == IF split[1] = dockerIO /\ Index(split[2], "/") = 0
                     THEN library \o <<"/">> \o split[2]
                     ELSE split[2]
    IN  <<split[1], remainder>>

\* domain-component: [a-zA-Z0-9] or [a-zA-Z0-9][a-zA-Z0-9-]*[a-zA-Z0-9]
domainComponent(s) ==
    /\ s # EmptyString
    /\ AllIn(s, LowerLetters \cup UpperLetters \cup Digits \cup {"-"})
    /\ s[1] # "-"
    /\ s[Len(s)] # "-"

\* domain: domain-name [":" port], the name made of components joined by "."
\* (hosts written as IP-literals in brackets are not inputs of the model)
domainAndPort(s) ==
    LET i == Index(s, ":")
        host == IF i = 0 THEN s ELSE SubSeq(s, 1, i - 1)
        port == SubSeq(s, i + 1, Len(s))
        parts == Split(host, ".")
    IN  /\ \A k \in 1..Len(parts) : domainComponent(parts[k])
        /\ i # 0 => (port # EmptyString /\ AllIn(port, Digits))

\* the separators of a path-component from position i on: a run of
\* separator characters is ".", "_", "__" or dashes, and stands between
\* two alpha-numerics
RECURSIVE separatorsFrom(_, _)
separatorsFrom(s, i) ==
    IF i > Len(s) THEN TRUE
    ELSE IF s[i] \in AlphaNumeric THEN separatorsFrom(s, i + 1)
    ELSE LET j == CHOOSE k \in i..Len(s) + 1 :
                     /\ \A m \in i..k - 1 : s[m] \notin AlphaNumeric
                     /\ k <= Len(s) => s[k] \in AlphaNumeric
             run == SubSeq(s, i, j - 1)
         IN  /\ j <= Len(s)
             /\ \/ run \in {<<".">>, <<"_">>, <<"_", "_">>}
                \/ AllIn(run, {"-"})
             /\ separatorsFrom(s, j)

\* path-component: [a-z0-9]+ ((?:[._]|__|[-]+) [a-z0-9]+)*
pathComponent(s) ==
    /\ s # EmptyString
    /\ AllIn(s, AlphaNumeric \cup {".", "_", "-"})
    /\ s[1] \in AlphaNumeric
    /\ separatorsFrom(s, 1)

\* remote-name: path-components joined by "/"
remoteName(s) ==
    LET parts == Split(s, "/")
    IN  \A k \in 1..Len(parts) : pathComponent(parts[k])

\* tag: [\w][\w.-]{0,127}
tagOK(s) ==
    /\ s # EmptyString
    /\ Len(s) <= 128
    /\ s[1] \in Word
    /\ AllIn(s, Word \cup {".", "-"})

NoReference == [ok |-> FALSE, domain |-> EmptyString, path |-> EmptyString,
                tag |-> EmptyString, digest |-> EmptyString]

\* reference.Parse(s): name [":" tag] ["@" digest] matched as a whole, the
\* name as [domain "/"] remote-name with the domain taken when it can be,
\* the digest checked by digest.Parse
referenceParse(s) ==
    LET at    == Index(s, "@")
        front == IF at = 0 THEN s ELSE SubSeq(s, 1, at - 1)
        dgst  == IF at = 0 THEN EmptyString ELSE SubSeq(s, at + 1, Len(s))
        colon == IndexFrom(front, ":", LastIndex(front, "/") + 1)
        name  == IF colon = 0 THEN front ELSE SubSeq(front, 1, colon - 1)
        tag   == IF colon = 0 THEN EmptyString ELSE SubSeq(front, colon + 1, Len(front))
        slash == Index(name, "/")
        first == SubSeq(name, 1, slash - 1)
        rest  == SubSeq(name, slash + 1, Len(name))
    IN  IF \/ at # 0 /\ ~digestParse(dgst)
           \/ colon # 0 /\ ~tagOK(tag)
        THEN NoReference
        ELSE IF slash # 0 /\ domainAndPort(first) /\ remoteName(rest)
        THEN [ok |-> TRUE, domain |-> first, path |-> rest, tag |-> tag, digest |-> dgst]
        ELSE IF remoteName(name)
        THEN [ok |-> TRUE, domain |-> EmptyString, path |-> name, tag |-> tag,
              digest |-> dgst]
        ELSE NoReference

\* reference.ParseNormalizedNamed(s)
ParseNormalizedNamed(s) ==
    LET split     == splitDockerDomain(s)
        remainder == split[2]
        tagSep    == Index(remainder, ":")
        remote    == IF tagSep # 0 THEN SubSeq(remainder, 1, tagSep - 1) ELSE remainder
    IN  IF IsIdentifier(s) THEN NoReference
        ELSE IF ~IsLower(remote) THEN NoReference
        ELSE referenceParse(split[1] \o <<"/">> \o remainder)

ErrInvalidImageReference == <<"ErrInvalidImageReference">>

\* the ImageReference of a digest alone
DigestOnly(dgst) ==
    [err |-> NilErr, Digest |-> dgst, Tag |-> EmptyString, ExplicitTag |-> EmptyString,
     Path |-> EmptyString, Domain |-> EmptyString]

\* reference.TagNameOnly adding its default tag to every name without a tag
TagNameOnly_always(nn) == IF nn.tag = EmptyString THEN latest ELSE nn.tag

\* reference.TagNameOnly: the tag of the reference it returns, "latest" for a
\* name that has neither tag nor digest
TagNameOnly(nn) ==
    IF nn.tag = EmptyString /\ nn.digest = EmptyString THEN latest ELSE nn.tag

\* Parse accepting what is left once the characters no grammar knows are dropped
Parse_lenient(rawRef) ==
    LET nn == ParseNormalizedNamed(SelectSeq(rawRef, LAMBDA c : c \in Word \cup {".", "-", ":", "/", "@"}))
    IN  IF ~nn.ok
        THEN [err |-> ErrInvalidImageReference, Digest |-> EmptyString, Tag |-> EmptyString,
              ExplicitTag |-> EmptyString, Path |-> EmptyString, Domain |-> EmptyString]
        ELSE [err |-> NilErr, Digest |-> nn.digest, Tag |-> TagNameOnly(nn),
              ExplicitTag |-> nn.tag, Path |-> nn.path, Domain |-> nn.domain]

\* Parse(rawRef): the ImageReference and the error it returns
Parse(rawRef) ==
    IF digestParse(rawRef) THEN DigestOnly(rawRef)
    ELSE IF digestParse(sha256 \o <<":">> \o rawRef)
    THEN DigestOnly(sha256 \o <<":">> \o rawRef)
    ELSE LET nn == ParseNormalizedNamed(rawRef)
         IN  IF ~nn.ok
             THEN [err |-> ErrInvalidImageReference, Digest |-> EmptyString,
                   Tag |-> EmptyString, ExplicitTag |-> EmptyString,
                   Path |-> EmptyString, Domain |-> EmptyString]
             ELSE [err |-> NilErr, Digest |-> nn.digest, Tag |-> TagNameOnly(nn),
                   ExplicitTag |-> nn.tag, Path |-> nn.path, Domain |-> nn.domain]

\* the parts the arguments of Parse are written from
ParseDomains == {EmptyString, <<"g", "h", "c", "r", ".", "i", "o">>, <<"g", "h", "c", "r", ".", "i", "o", ":", "1", "2", "3", "4">>, <<"d", "o", "c", "k", "e", "r", ".", "i", "o">>}
ParsePaths == {<<"a", "l", "p", "i", "n", "e">>, <<"i", "m", "a", "g", "e", "_", "n", "a", "m", "e">>, <<"s", "u", "b", "_", "n", "a", "m", "e", "/", "i", "m", "a", "g", "e", "_", "n", "a", "m", "e">>}
ParseTags == {EmptyString, <<"l", "a", "t", "e", "s", "t">>, <<"f", "o", "o">>}
\* a sha256 digest as the model writes it
ModelDigest == sha256 \o <<":">> \o [i \in 1..HexLen |-> IF i = 1 THEN "4" ELSE "b"]

ParseDigests == {EmptyString, ModelDigest}

\* repositories with an upper-case letter, which the repository grammar has not
UpperPaths == {<<"A", "l", "p", "i", "n", "e">>, <<"s", "u", "b", "_", "n", "a", "m", "e", "/", "I", "m", "a", "g", "e", "_", "n", "a", "m", "e">>}

\* a character that no part of the grammar has, as the "∞" of the tests
Illegal == "#"

\* s with the character c put after its first i characters
InsertAt(s, i, c) == SubSeq(s, 1, i) \o <<c>> \o SubSeq(s, i + 1, Len(s))

\* longest argument among those written character by character
MaxFree == 3

FreeAlphabet == {"a", "4", "A", Illegal, ":", "@", "/", "."}

FreeStrings == UNION {[1..n -> FreeAlphabet] : n \in 0..MaxFree}

NoImageReference ==
    [err |-> NilErr, Digest |-> EmptyString, Tag |-> EmptyString,
     ExplicitTag |-> EmptyString, Path |-> EmptyString, Domain |-> EmptyString]

ParseArgument(kind, rawRef, domain, path, tag, digest) ==
    [kind |-> kind, rawRef |-> rawRef, domain |-> domain, path |-> path, tag |-> tag,
     digest |-> digest, done |-> FALSE, ref |-> NoImageReference]

\* the arguments of the model: references as their grammar writes them, the
\* same with a character put in that the grammar has not, repositories in
\* upper case, and every short string
InitParse ==
    /\ SyncInit
    /\ ctxDone = FALSE
    /\ DigestsOff
    /\ PlanOff
    /\ ClientOff
    /\ RetryOff
    /\ stripCall = << >>
    /\ RaceOff
    /\ \/ \E domain \in ParseDomains, path \in ParsePaths, tag \in ParseTags,
             digest \in ParseDigests :
             LET written == Reference(domain, path, tag, digest)
             IN  \/ parseCall = ParseArgument("written", written, domain, path, tag, digest)
                 \/ \E i \in 0..Len(written) :
                       parseCall = ParseArgument("broken", InsertAt(written, i, Illegal),
                                                 domain, path, tag, digest)
       \/ \E domain \in ParseDomains, path \in UpperPaths, tag \in ParseTags,
             digest \in ParseDigests :
             parseCall = ParseArgument("upper", Reference(domain, path, tag, digest),
                                       domain, path, tag, digest)
       \/ \E rawRef \in FreeStrings :
             parseCall = ParseArgument("free", rawRef, EmptyString, EmptyString,
                                       EmptyString, EmptyString)

\* reference.Parse(rawRef)
CallParse ==
    /\ ~parseCall.done
    /\ parseCall' = [parseCall EXCEPT !.done = TRUE, !.ref = Parse(parseCall.rawRef)]
    /\ UNCHANGED <<syncVars, sdkVars, ctxDone, clientVars, retryVars, stripCall, raceVars, planVars, digestsVars>>

----------------------------------------------------------------------------
(* sdk: the builders of a plan and Plan.Execute *)

\* largest number of builders made, and of Build calls on one builder
MaxBuilders == 2
MaxBuilds == 2

BuilderKinds == {"Image", "Registry", "BuildNode", "Build", "Scan", "Audit", "Sync",
                 "VersionCheck"}

\* the builders whose struct has the field built, checked and set by Build
HasBuilt == {"Image", "Registry", "BuildNode", "Build"}

\* the builders whose Build appends to plan.operations
AddsOperation == {"Build", "Scan", "Audit", "Sync", "VersionCheck"}

\* the builders whose Build stores into plan.registries or plan.buildNodes
AddsResource == {"Registry", "BuildNode"}

\* the first validation error Build can return for a builder of the kind
ValidationError(kind) ==
    CASE kind = "Image" -> "ErrImageNameRequired"
      [] kind = "BuildNode" -> "ErrBuildNodeEndpointRequired"
      [] kind = "Build" -> "ErrBuildContextRequired"
      [] kind = "Scan" -> "ErrScanImageRequired"
      [] kind = "Audit" -> "ErrAuditSourceRequired"
      [] kind = "Sync" -> "ErrSyncSourceRequired"
      [] kind = "VersionCheck" -> "ErrVersionCheckImageRequired"
      [] OTHER -> "nil"

\* what the setters of a builder can have left: a configuration Build
\* accepts, or one it refuses
Configurations(kind) == {"nil", ValidationError(kind)}

PlanInit ==
    /\ builders = << >>
    /\ operations = << >>
    /\ resources = << >>
    /\ planPc = "building"
    /\ executed = << >>
    /\ planErr = "nil"

PlanFrame ==
    UNCHANGED <<syncVars, sdkVars, ctxDone, clientVars, retryVars, stripCall, raceVars,
                parseVars, digestsVars>>

\* sdk.NewImage, plan.Registry, plan.BuildNode, plan.Build, plan.Scan,
\* plan.Audit, plan.Sync, plan.VersionCheck, and the setters called on the builder
NewBuilder(kind, config) ==
    /\ planPc = "building"
    /\ Len(builders) < MaxBuilders
    /\ builders' = Append(builders, [kind |-> kind, config |-> config, built |-> FALSE,
                                     results |-> << >>])
    /\ UNCHANGED <<operations, resources, planPc, executed, planErr>>
    /\ PlanFrame

\* "if builder.built { return nil, ErrBuilderAlreadyUsed }", where Build has it
BuildGuard(builder) == builder.kind \in HasBuilt /\ builder.built

\* builder.Build() on the b-th builder
BuilderBuild(b) ==
    /\ planPc = "building"
    /\ Len(builders[b].results) < MaxBuilds
    /\ LET builder == builders[b]
           err == IF BuildGuard(builder) THEN "ErrBuilderAlreadyUsed" ELSE builder.config
           item == [kind |-> builder.kind, builder |-> b]
       IN  /\ builders' = [builders EXCEPT
                             ![b].built = builder.kind \in HasBuilt,
                             ![b].results = Append(builder.results, err)]
           /\ operations' = IF err = "nil" /\ builder.kind \in AddsOperation
                            THEN Append(operations, item) ELSE operations
           /\ resources' = IF err = "nil" /\ builder.kind \in AddsResource
                           THEN Append(resources, item) ELSE resources
    /\ UNCHANGED <<planPc, executed, planErr>>
    /\ PlanFrame

\* the operations in the order an executor grouping them by kind runs them
RECURSIVE OfKinds(_, _)
OfKinds(operationList, kinds) ==
    IF kinds = << >> THEN << >>
    ELSE SelectSeq(operationList, LAMBDA op : op.kind = Head(kinds))
            \o OfKinds(operationList, Tail(kinds))

ExecutionOrder_byKind(operationList) ==
    OfKinds(operationList, <<"VersionCheck", "Sync", "Build", "Scan", "Audit">>)

\* "for _, op := range plan.operations"
ExecutionOrder(operationList) == operationList

\* plan.Execute(ctx) is called
PlanExecute ==
    /\ planPc = "building"
    /\ planPc' = "executing"
    /\ UNCHANGED <<builders, operations, resources, executed, planErr>>
    /\ PlanFrame

\* one turn of the loop of Plan.Execute: op.execute(ctx), and the return
\* when it fails
ExecuteOperation ==
    /\ planPc = "executing"
    /\ Len(executed) < Len(operations)
    /\ \E err \in {"nil", "failed"} :
          /\ executed' = Append(executed,
                  [op |-> ExecutionOrder(operations)[Len(executed) + 1], err |-> err])
          /\ IF err # "nil"
             THEN planPc' = "returned" /\ planErr' = err
             ELSE UNCHANGED <<planPc, planErr>>
    /\ UNCHANGED <<builders, operations, resources>>
    /\ PlanFrame

\* the loop of Plan.Execute is over: return nil
ExecuteReturn ==
    /\ planPc = "executing"
    /\ Len(executed) = Len(operations)
    /\ planPc' = "returned"
    /\ planErr' = "nil"
    /\ UNCHANGED <<builders, operations, resources, executed>>
    /\ PlanFrame

----------------------------------------------------------------------------
(* Specification *)

Next ==
    \/ \E source \in SourceImages, dest \in DestImages, platforms \in PlatformChoices :
          SyncBuilderBuild(source, dest, platforms)
    \/ \E i \in 1..Len(plan) : SyncExecute(i)
    \/ SyncExecuteReturn
    \/ \E src \in DirectSources, dst \in DirectDestinations : CallSyncImage(src, dst)
    \/ GetImage
    \/ GetPlatformDigests
    \/ RangePlatformDigests
    \/ PushManifestList
    \/ CopyImage

Spec == Init /\ [][Next]_vars

\* the plan executed under a context that its caller may cancel
NextCancel ==
    \/ Next
    \/ CancelContext

SpecCancel == Init /\ [][NextCancel]_vars

\* the two clients of a sync and the calls made on them
InitClient ==
    /\ SyncInit
    /\ ctxDone = FALSE
    /\ DigestsOff
    /\ PlanOff
    /\ ClientInit
    /\ RetryOff
    /\ ParseOff
    /\ stripCall = << >>
    /\ RaceOff

NextClient ==
    \/ \E c \in ClientNames, imageRef \in ClientRefs : CallCheckExists(c, imageRef)
    \/ \E imageRef \in ClientRefs : CallSyncerCheckExists(imageRef)
    \/ \E srcRef \in ClientRefs, dstRef \in ClientRefs : CallCopyImage(srcRef, dstRef)
    \/ \E srcRef \in ClientRefs, dstRef \in ClientRefs : CallCopyIndex(srcRef, dstRef)
    \/ \E c \in ClientNames, method \in ReferenceMethods, imageRef \in ClientRefs :
          CallReferenceMethod(c, method, imageRef)

SpecClient == InitClient /\ [][NextClient]_vars

\* one request of a client, attempt after attempt
InitRetry ==
    /\ SyncInit
    /\ ctxDone = FALSE
    /\ DigestsOff
    /\ PlanOff
    /\ ClientOff
    /\ rt = "idle"
    /\ rtRef = EmptyString
    /\ attempts = << >>
    /\ backoff = << >>
    /\ delays = << >>
    /\ slept = 0
    /\ rtErr = "nil"
    /\ stripCall = << >>
    /\ RaceOff
    /\ ParseOff

NextRetry ==
    \/ \E ref \in ClientRefs : StartRequest(ref)
    \/ RoundTrip
    \/ Sleep

SpecRetry == InitRetry /\ [][NextRetry]_vars

\* stripTag applied to a reference
NextStripTag == CallStripTag

SpecStripTag == InitStripTag /\ [][NextStripTag]_vars

NextDigests == CallGetPlatformDigests

SpecDigests == InitDigests /\ [][NextDigests]_vars

\* a plan is built, then executed
InitPlan ==
    /\ SyncInit
    /\ ctxDone = FALSE
    /\ DigestsOff
    /\ ClientOff
    /\ RetryOff
    /\ stripCall = << >>
    /\ RaceOff
    /\ ParseOff
    /\ PlanInit

NextPlan ==
    \/ \E kind \in BuilderKinds : \E config \in Configurations(kind) : NewBuilder(kind, config)
    \/ \E b \in 1..Len(builders) : BuilderBuild(b)
    \/ PlanExecute
    \/ ExecuteOperation
    \/ ExecuteReturn

SpecPlan == InitPlan /\ [][NextPlan]_vars

\* reference.Parse applied to an argument
NextParse == CallParse

SpecParse == InitParse /\ [][NextParse]_vars

\* two SyncImage calls running at once, their steps interleaved at will
NextRace ==
    \/ \E p \in Syncers : ConcurrentGetImage(p)
    \/ \E p \in Syncers : ConcurrentFetch(p)
    \/ \E p \in Syncers : ConcurrentUpload(p)
    \/ \E p \in Syncers : ConcurrentPut(p)
    \/ \E p \in Syncers : ConcurrentDigest(p)

SpecRace == InitRace /\ [][NextRace]_vars

----------------------------------------------------------------------------
(* Properties *)

Returned == pc = "returned"

\* the call went through the multi-platform flow
MultiFlow == \E k \in 1..Len(trace) : trace[k] = "MultiPlatformCopy"

\* C1, as stated: a SyncImage call whose source reference carries no digest
\* issues no network request and returns the source-digest-required error.
C1_SyncImageRejectsDigestlessSource ==
    (via \in {"sdk", "direct"} /\ srcImage # EmptyString
                               /\ RefDigest(srcImage) = EmptyString)
        => /\ calls = << >>
           /\ Returned => retErr = <<"ErrSyncSourceDigestRequired">>

\* C1, amended: the digest requirement is enforced when the sync is built.
\* SyncBuilder.Build answers ErrSyncSourceDigestRequired for a source image
\* without digest and adds nothing to the plan, so no sync of a plan has a
\* source without digest, and every SyncImage call made by Sync.execute, with
\* every network request it issues on the source, is qualified by a digest.
C1_BuildRejectsDigestlessSource ==
    /\ (~builderSource.nil /\ builderSource.digest = EmptyString)
          => (buildErr = "ErrSyncSourceDigestRequired" /\ plan = << >>)
    /\ \A i \in 1..Len(plan) : plan[i].sourceImage.digest # EmptyString
    /\ via = "sdk" =>
          /\ RefDigest(srcImage) # EmptyString
          /\ \A k \in 1..Len(calls) :
                calls[k].client = "source" => RefDigest(calls[k].ref) # EmptyString

\* a Build with a digestless source has just been refused
C1_Witness ==
    /\ ~builderSource.nil
    /\ builderSource.digest = EmptyString
    /\ buildErr = "ErrSyncSourceDigestRequired"
    /\ calls = << >>

PlatformKey(entry) == Sprintf(entry.os, entry.architecture)

StrictlySorted(idx) ==
    \A i \in 1..(Len(idx) - 1) : StringLess(PlatformKey(idx[i]), PlatformKey(idx[i + 1]))

\* C2: every manifest list written to the destination lists the collected
\* platforms, each once, in strictly increasing byte order of os/architecture,
\* whatever the order of the fetches; the sequence, and with it the returned
\* digest, is therefore fixed by the set of platform images alone.
C2_ManifestListSorted ==
    \A w \in 1..Len(dstWrites) :
        dstWrites[w].kind = "index" =>
            LET idx == dstWrites[w].manifests
            IN  /\ StrictlySorted(idx)
                /\ {PlatformKey(idx[i]) : i \in 1..Len(idx)} = DOMAIN platformImages
                /\ Len(idx) = Cardinality(DOMAIN platformImages)
                /\ \A i \in 1..Len(idx) :
                      idx[i].digest = platformImages[PlatformKey(idx[i])].digest
                /\ (Returned /\ retErr = NilErr) => retDigest = IndexDigest(idx)

\* linux/arm64 was fetched before linux/amd64, and the list pushed has both
C2_Witness ==
    /\ Returned
    /\ retErr = NilErr
    /\ Len(calls) = 5
    /\ RefDigest(calls[3].ref) = Digest2
    /\ RefDigest(calls[4].ref) = Digest1
    /\ DOMAIN platformImages = {Sprintf(linux, amd64), Sprintf(linux, arm64)}
    /\ platformDigests[Sprintf(linux, arm64)] = Digest2
    /\ platformDigests[Sprintf(linux, amd64)] = Digest1
    /\ Len(dstWrites) = 1
    /\ Len(dstWrites[1].manifests) = 2

KeyAMD64 == Sprintf(linux, amd64)
KeyARM64 == Sprintf(linux, arm64)
Key386   == Sprintf(linux, i386)
KeyWindows == Sprintf(windows, amd64)

\* s names a repository and nothing else: no digest, and no tag after the path
BareRepository(s) ==
    /\ Index(s, "@") = 0
    /\ \A i \in 1..Len(s) : s[i] = ":" => \E j \in (i + 1)..Len(s) : s[j] = "/"

\* base is ref without what follows its repository
RepositoryOf(base, ref) ==
    /\ Len(base) <= Len(ref)
    /\ SubSeq(ref, 1, Len(base)) = base
    /\ Len(base) < Len(ref) => ref[Len(base) + 1] \in {":", "@"}

\* indexes into calls of the requests with this operation
Requests(op) == {k \in 1..Len(calls) : calls[k].op = op}

\* C3: in a multi-platform sync every platform image is fetched from the
\* source with <bare source repository>@<digest>, the digest being the one the
\* source index gave for a platform the loop has taken; the images collected
\* and the entries of the list pushed carry exactly those digests, and the
\* destination is only ever written to.
C3_PlatformImagesFromSourceByDigest ==
    /\ MultiFlow =>
         /\ \A k \in Requests("Image") :
               LET ref  == calls[k].ref
                   base == SubSeq(ref, 1, Index(ref, "@") - 1)
               IN  /\ calls[k].client = "source"
                   /\ Index(ref, "@") # 0
                   /\ BareRepository(base)
                   /\ RepositoryOf(base, srcImage)
                   /\ \E p \in visited : platformDigests[p] = RefDigest(ref)
         /\ \A p \in DOMAIN platformImages :
               /\ platformImages[p].origin = "source"
               /\ platformImages[p].digest = platformDigests[p]
         /\ \A w \in 1..Len(dstWrites) :
               \A i \in 1..Len(dstWrites[w].manifests) :
                   LET entry == dstWrites[w].manifests[i]
                   IN  entry.digest = platformDigests[PlatformKey(entry)]
    /\ \A k \in 1..Len(calls) :
          calls[k].client = "destination" => calls[k].op \in {"WriteIndex", "Write"}

\* a list of two platforms was pushed from a source given as host:port/path:tag
C3_Witness ==
    /\ Returned
    /\ MultiFlow
    /\ retErr = NilErr
    /\ srcImage = <<"h", ":", "5", "/", "a", ":", "t">>
    /\ Cardinality(Requests("Image")) = 2
    /\ Len(dstWrites) = 1

\* the index assembled from the collected source images, keys in byte order
ExpectedIndex ==
    LET keys == CHOOSE o \in Orders(DOMAIN platformImages) :
                    \A i \in 1..(Len(o) - 1) : StringLess(o[i], o[i + 1])
    IN  [i \in 1..Len(keys) |->
            [os |-> SplitN(keys[i])[1], architecture |-> SplitN(keys[i])[2],
             digest |-> platformImages[keys[i]].digest]]

\* C4: the digest of a successful sync is the digest of content held locally:
\* of the index assembled from the images fetched from the source, or of the
\* image fetched from the source; it does not depend on what the destination
\* answered, and no request reads the destination.
C4_DigestComputedLocally ==
    /\ (Returned /\ retErr = NilErr) =>
          IF MultiFlow
          THEN retDigest = IndexDigest(ExpectedIndex)
          ELSE \E k \in Requests("Image") :
                  /\ calls[k].client = "source"
                  /\ calls[k].ok
                  /\ retDigest \in {img.digest : img \in SourceImageFor(calls[k].ref)}
    /\ \A k \in 1..Len(calls) :
          calls[k].client = "destination" => calls[k].op \in {"WriteIndex", "Write"}

\* the destination confirmed the push with a digest of its own making
C4_Witness ==
    /\ Returned
    /\ retErr = NilErr
    /\ MultiFlow
    /\ Len(dstWrites) = 1
    /\ Len(dstWrites[1].manifests) = 2
    /\ dstReported = DigestX
    /\ retDigest # dstReported

AllFour == {KeyAMD64, KeyARM64, Key386, KeyWindows}

\* C5: for a source index with linux/amd64, linux/arm64, linux/386 and
\* windows/amd64, only linux/amd64 and linux/arm64 are fetched (once each)
\* and listed; the two others are passed over without a request, and an
\* error of the loop is always the failed fetch of one of the two retained.
C5_DefaultAllowList ==
    DOMAIN platformDigests = AllFour =>
        /\ DOMAIN platformImages \subseteq {KeyAMD64, KeyARM64}
        /\ Cardinality(Requests("Image")) = Cardinality(visited \cap {KeyAMD64, KeyARM64})
        /\ (visited = AllFour /\ \A k \in 1..Len(calls) : calls[k].ok)
              => DOMAIN platformImages = {KeyAMD64, KeyARM64}
        /\ \A w \in 1..Len(dstWrites) :
              dstWrites[w].kind = "index" =>
                  {PlatformKey(dstWrites[w].manifests[i]) :
                      i \in 1..Len(dstWrites[w].manifests)} = {KeyAMD64, KeyARM64}
        /\ (Returned /\ retErr # NilErr /\ retErr[1] = "failed to fetch platform")
              => /\ ~calls[Len(calls)].ok
                 /\ RefDigest(calls[Len(calls)].ref)
                       \in {platformDigests[KeyAMD64], platformDigests[KeyARM64]}

\* the sync of such an index succeeded with a list of two entries
C5_Witness ==
    /\ Returned
    /\ retErr = NilErr
    /\ DOMAIN platformDigests = AllFour
    /\ visited = AllFour
    /\ Len(dstWrites) = 1
    /\ Len(dstWrites[1].manifests) = 2

\* C6: a push of the manifest list comes after a successful fetch of every
\* retained platform of the source index and after no failed request; once a
\* platform fetch has failed, the call pushes nothing.
C6_PushAfterAllFetches ==
    MultiFlow =>
        /\ \A k \in Requests("WriteIndex") :
              /\ \A j \in 1..(k - 1) : calls[j].ok
              /\ \A p \in (DOMAIN platformDigests) \cap {KeyAMD64, KeyARM64} :
                    /\ p \in DOMAIN platformImages
                    /\ \E j \in 1..(k - 1) :
                          /\ calls[j].op = "Image"
                          /\ RefDigest(calls[j].ref) = platformDigests[p]
              /\ Cardinality({j \in Requests("Image") : j < k})
                    = Cardinality((DOMAIN platformDigests) \cap {KeyAMD64, KeyARM64})
        /\ (\E j \in Requests("Image") : ~calls[j].ok)
              => (Requests("WriteIndex") = {} /\ dstWrites = << >>)

\* the list was pushed as the fifth request, after both platform fetches
C6_Witness ==
    /\ Returned
    /\ MultiFlow
    /\ Requests("WriteIndex") = {5}
    /\ Cardinality(Requests("Image")) = 2
    /\ calls[5].ok

\* C7, as stated: a multi-platform SyncImage call that returns an error,
\* whichever step failed, has written nothing into the destination.
C7_ErrorLeavesNoList ==
    (Returned /\ MultiFlow /\ retErr # NilErr) => dstWrites = << >>

DigestStepFailed == retErr = <<"failed to create manifest list",
                               "failed to get manifest list digest">>

\* C7, amended: a multi-platform SyncImage call that returns an error from
\* platform-digest extraction or from a platform fetch has sent the
\* destination no request and left nothing in it.  A failed push leaves no
\* manifest list, though platform images may have been uploaded; and the
\* local digest computation runs after the push has succeeded, so when it is
\* the step that fails the manifest list is in the destination.
C7_ErrorBeforePushLeavesNothing ==
    (Returned /\ MultiFlow /\ retErr # NilErr) =>
        /\ retErr[1] \in {"failed to get platform digests", "failed to fetch platform"}
              => /\ dstWrites = << >>
                 /\ \A k \in 1..Len(calls) : calls[k].client = "source"
        /\ ~DigestStepFailed => \A w \in 1..Len(dstWrites) : dstWrites[w].kind # "index"
        /\ DigestStepFailed
              => /\ Len(dstWrites) = 1
                 /\ dstWrites[1].kind = "index"
                 /\ dstWrites[1].ref = dstImage

\* the second platform fetch failed while the first image was already held
C7_Witness ==
    /\ Returned
    /\ MultiFlow
    /\ retErr = <<"failed to fetch platform", "failed to get source image">>
    /\ Cardinality(DOMAIN platformImages) = 1
    /\ dstWrites = << >>

\* C8: an error of SyncImage comes with the empty digest, and a digest that
\* is not empty comes with a nil error.
C8_NoDigestWithError ==
    /\ retErr # NilErr => retDigest = EmptyString
    /\ retDigest # EmptyString => (retErr = NilErr /\ pc \in {"returned", "idle"})

\* the call failed at its last step, the content already written
C8_Witness ==
    /\ Returned
    /\ retErr # NilErr
    /\ retDigest = EmptyString
    /\ Len(dstWrites) = 1

\* C9: a failed request is the last request of its SyncImage call, which
\* returns the error; no call goes through both flows.
C9_NoRecovery ==
    /\ \A k \in 1..(Len(calls) - 1) : calls[k].ok
    /\ (Len(calls) > 0 /\ ~calls[Len(calls)].ok)
          => (pc \in {"returned", "idle"} /\ retErr # NilErr /\ retDigest = EmptyString)
    /\ retErr # NilErr => pc \in {"returned", "idle"}
    /\ ~(MultiFlow /\ \E k \in 1..Len(trace) : trace[k] = "SinglePlatformCopy")
    /\ \A j, k \in 1..Len(calls) : (j # k /\ calls[j].op = calls[k].op)
                                       => calls[j].ref # calls[k].ref \/ calls[j].op = "Image"

\* the third request, a platform fetch, failed and ended the call
C9_Witness ==
    /\ Returned
    /\ MultiFlow
    /\ Len(calls) = 3
    /\ calls[3].op = "Image"
    /\ ~calls[3].ok
    /\ retErr # NilErr

Steps == {<<"Start", "DetectTopology", "MultiPlatformCopy", "Done">>,
          <<"Start", "DetectTopology", "SinglePlatformCopy", "Done">>,
          <<"Start", "DetectTopology", "Done">>}

\* C10: the steps of a SyncImage call are a prefix of Start, DetectTopology,
\* one of the two flows, Done (Done follows DetectTopology directly only when
\* detection failed); the first request is the Get of the source descriptor
\* and every other request follows its success; the multi-platform flow is
\* entered exactly for the two index media types, the single-platform flow
\* for the others, and each flow issues only its own requests.
C10_OneFlowAfterDetection ==
    /\ trace = << >> \/ \E steps \in Steps :
          Len(trace) <= Len(steps) /\ trace = SubSeq(steps, 1, Len(trace))
    /\ (Returned /\ Len(trace) = 3) => (retErr # NilErr /\ retErr[1] = "failed to get source image")
    /\ Len(calls) > 0 => calls[1] = Request("source", "Get", srcImage, calls[1].ok)
    /\ Len(calls) > 1 => calls[1].ok
    /\ \A k \in 2..Len(calls) : calls[k].op # "Get"
    /\ MultiFlow <=> mediaType \in {"OCIImageIndex", "DockerManifestList"}
    /\ (\E k \in 1..Len(trace) : trace[k] = "SinglePlatformCopy")
          <=> mediaType \in {"OCIManifestSchema1", "DockerManifestSchema2"}
    /\ MultiFlow => Requests("Write") = {}
    /\ ~MultiFlow => (Requests("Index") = {} /\ Requests("WriteIndex") = {})

\* a call went through the single-platform flow to the end
C10_Witness ==
    /\ Returned
    /\ retErr = NilErr
    /\ trace = <<"Start", "DetectTopology", "SinglePlatformCopy", "Done">>
    /\ mediaType = "DockerManifestSchema2"
    /\ Len(calls) = 3

ContextCanceled == <<"context canceled">>

\* C11, as stated: once the context of the plan is cancelled, the sync it is
\* executing issues no further request and writes nothing more, and the
\* SyncImage call that was running returns the cancellation error.
C11_CancelledSyncStops ==
    [][ctxDone => /\ Len(calls') <= Len(calls)
                  /\ Len(dstWrites') <= Len(dstWrites)
                  /\ (pc # "returned" /\ pc' = "returned") => retErr' = ContextCanceled]_vars

NotFound(outcome) == outcome.kind = "transport" /\ outcome.status = 404

\* C12: an existence check, made on a client or through the syncer, returns
\* (false, nil) exactly when the registry answered 404; it returns true
\* exactly when the lookup succeeded, and then with a nil error; for every
\* other end of the lookup (401, 403, 429, 500, no response) and for a
\* reference that does not parse (no request is sent then) it returns false
\* with an error.
C12_ExistsOnlyFor404 ==
    answer.op \in {"CheckExists", "Syncer.CheckExists"} =>
        /\ (~answer.exists /\ answer.err = NilErr) <=> NotFound(answer.outcome)
        /\ answer.exists <=> answer.outcome.kind = "ok"
        /\ answer.exists => answer.err = NilErr
        /\ (answer.outcome.kind \in {"transport", "network"} /\ ~NotFound(answer.outcome))
              => (~answer.exists /\ answer.err # NilErr)
        /\ ~ParseReference(answer.ref)
              => (~answer.exists /\ answer.err # NilErr /\ sent = << >>
                    /\ answer.outcome = NoOutcome)
        /\ ParseReference(answer.ref)
              => (Len(sent) = 1 /\ sent[1].verb = "Get" /\ sent[1].ref = answer.ref)

\* the syncer was told by the destination that the image is not there
C12_Witness ==
    /\ answer.op = "Syncer.CheckExists"
    /\ NotFound(answer.outcome)
    /\ ~answer.exists
    /\ answer.err = NilErr
    /\ Len(sent) = 1

\* C13: a request makes at most five attempts; an attempt that was answered
\* is followed by another one only when the status was 429, 500, 502, 503 or
\* 504, and such a status is retried until the fifth attempt; a 200, a 401
\* or a 404 ends the request at once, and a reference that does not parse
\* ends it without any attempt.
C13_RetryOnlyListedStatuses ==
    rt # "off" =>
        /\ Len(attempts) <= 5
        /\ \A k \in 1..(Len(attempts) - 1) :
              attempts[k] # 0 => attempts[k] \in {429, 500, 502, 503, 504}
        /\ \A k \in 1..Len(attempts) :
              attempts[k] \in {200, 401, 404}
                  => (k = Len(attempts) /\ rt = "done"
                        /\ rtErr = IF attempts[k] = 200 THEN "nil" ELSE "transport.Error")
        /\ (rt = "done" /\ Len(attempts) > 0
                /\ attempts[Len(attempts)] \in {429, 500, 502, 503, 504})
              => (Len(attempts) = 5 /\ rtErr = "transport.Error")
        /\ (rt = "sleep") => (Len(attempts) < 5 /\ attempts[Len(attempts)] \notin {200, 401, 404})
        /\ (rt \in {"send", "sleep", "done"} /\ ~ParseReference(rtRef))
              => (attempts = << >> /\ rt = "done" /\ rtErr = "ErrParseImageReference")

\* five attempts were answered 503 and the request gave up
C13_Witness ==
    /\ rt = "done"
    /\ attempts = <<503, 503, 503, 503, 503>>
    /\ rtErr = "transport.Error"

\* the request has used up its attempts
Exhausted == rt = "done" /\ Len(attempts) = 5

RECURSIVE Pow2(_)
Pow2(n) == IF n = 0 THEN 1 ELSE 2 * Pow2(n - 1)

CarriesCredentialsOf(request, client) ==
    /\ request.opts.auth.has
    /\ request.opts.auth.Username = client.username
    /\ request.opts.auth.Password = client.password

\* C15: every request made for a client carries HTTP Basic credentials, the
\* client's own, exactly when the username and the password of that client
\* are both set; when one of them is empty the request carries none.  In a
\* copy, the read is made as the source client and the write as the
\* destination client.
C15_BasicAuthIffBothSet ==
    \A k \in 1..Len(sent) :
        LET client == created[sent[k].by]
            both   == client.username # EmptyString /\ client.password # EmptyString
        IN  /\ both => CarriesCredentialsOf(sent[k], client)
            /\ ~both => sent[k].opts.auth = NoAuth
            /\ sent[k].verb = "Write" <=> sent[k].by = "destination" /\ answer.op = "CopyImage"

\* a copy that read without credentials, the source client having only a
\* username, and wrote with those of the destination client
C15_Witness ==
    /\ answer.op = "CopyImage"
    /\ Len(sent) = 2
    /\ created["source"].username # EmptyString
    /\ created["source"].password = EmptyString
    /\ ~sent[1].opts.auth.has
    /\ CarriesCredentialsOf(sent[2], created["destination"])

\* C16: for a reference that carries a tag or a digest, stripTag returns the
\* repository, host and port included: what precedes the ":tag" or the
\* "@digest"; for a reference that carries neither it returns its argument.
\* In particular registry.local:5000/app:v1 gives registry.local:5000/app,
\* app@sha256:abc gives app, and app gives app.
C16_StripTagKeepsRepository ==
    (stripCall.done /\ (stripCall.tag = EmptyString \/ stripCall.digest = EmptyString)) =>
        /\ stripCall.result = Repository(stripCall.host, stripCall.path)
        /\ (stripCall.tag = EmptyString /\ stripCall.digest = EmptyString)
              => stripCall.result = stripCall.imageRef
        /\ stripCall.imageRef = <<"r", "e", "g", "i", "s", "t", "r", "y", ".", "l", "o", "c", "a", "l", ":", "5", "0", "0", "0", "/", "a", "p", "p", ":", "v", "1">>
              => stripCall.result = <<"r", "e", "g", "i", "s", "t", "r", "y", ".", "l", "o", "c", "a", "l", ":", "5", "0", "0", "0", "/", "a", "p", "p">>
        /\ stripCall.imageRef = <<"a", "p", "p", "@", "s", "h", "a", "2", "5", "6", ":", "a", "b", "c">>
              => stripCall.result = <<"a", "p", "p">>
        /\ stripCall.imageRef = <<"a", "p", "p">>
              => stripCall.result = <<"a", "p", "p">>

\* the tag was taken off a reference whose host has a port
C16_Witness ==
    /\ stripCall.done
    /\ stripCall.imageRef = <<"r", "e", "g", "i", "s", "t", "r", "y", ".", "l", "o", "c", "a", "l", ":", "5", "0", "0", "0", "/", "a", "p", "p", ":", "v", "1">>
    /\ stripCall.result = <<"r", "e", "g", "i", "s", "t", "r", "y", ".", "l", "o", "c", "a", "l", ":", "5", "0", "0", "0", "/", "a", "p", "p">>

\* C17, as stated: the reference held by an image is, as long as the image
\* lives, what parsing made it: the images a sync of the plan holds are those
\* that were handed to its builder, field for field, before and after the
\* sync has executed.
C17_ReferenceNeverMutated ==
    \A i \in 1..Len(plan) :
        /\ plan[i].sourceImage = builderSource
        /\ plan[i].destImage = builderDest

\* Sync.execute has run SyncImage and got a digest from it
ExecutedSuccessfully ==
    /\ pc = "idle"
    /\ via = "sdk"
    /\ executing = 0
    /\ retErr = NilErr
    /\ execErr = "nil"

C19_LastWriteWins ==
    /\ \A p \in Syncers :
          /\ ops[p].pc # "returned" => ENABLED ConcurrentStep(p)
          /\ (ops[p].pc = "returned" /\ ops[p].err = NilErr)
                => /\ ops[p].digest # EmptyString
                   /\ ops[p].digest = ops[p].manifest.digest
                   /\ \E k \in 1..Len(putOrder) : putOrder[k] = p
          /\ ops[p].err # NilErr => (ops[p].pc = "returned" /\ ops[p].digest = EmptyString)
    /\ dstTag = IF putOrder = << >> THEN NoManifest
                ELSE ops[putOrder[Len(putOrder)]].manifest
    /\ \A i \in 1..Len(dstTag.manifests) : dstTag.manifests[i].digest \in dstBlobs
    /\ dstTag.kind = "image" => dstTag.digest \in dstBlobs

\* both calls returned a digest, not the same; call 2 pushed first, and the
\* reference resolves to what call 1 pushed
C19_Witness ==
    /\ \A p \in Syncers : ops[p].pc = "returned" /\ ops[p].err = NilErr
    /\ ops[1].digest # ops[2].digest
    /\ putOrder = <<2, 1>>
    /\ dstTag.digest = ops[1].digest
    /\ dstTag.kind = "index"
    /\ ops[2].manifest.kind = "index"

\* C20: whatever calls were made on the two clients, each still has the host,
\* username and password it was constructed with, calls on one having left
\* the other as it was; every request of the latest call carries the options
\* a client just constructed with that host and those credentials would give
\* (same retry statuses, same backoff, same authentication), and the answer
\* of CheckExists is determined by the reference and the registry's response.
C20_ClientsKeepTheirState ==
    /\ \A c \in ClientNames : clients[c] = created[c]
    /\ \A k \in 1..Len(sent) :
          LET was == created[sent[k].by]
          IN  sent[k].opts = remoteOptions(NewClient(was.host, was.username, was.password))
    /\ answer.op = "CheckExists"
          => <<answer.exists, answer.err>> = ClientCheckExists(answer.ref, answer.outcome)

\* the second call on the destination client, none made on the source
\* client, whose credentials differ: the request carries the destination's
C20_Witness ==
    /\ made["destination"] = 2
    /\ made["source"] = 0
    /\ answer.op = "CheckExists"
    /\ answer.by = "destination"
    /\ Len(sent) = 1
    /\ created["destination"].password # EmptyString
    /\ created["source"] # created["destination"]
    /\ CarriesCredentialsOf(sent[1], created["destination"])
    /\ clients["source"] = created["source"]

\* C21: Parse of a name written without tag and without digest gives the
\* tag "latest" and an empty ExplicitTag, and the tag is defaulted in that
\* case only: a written tag is kept as Tag and ExplicitTag, a name with a
\* digest and no tag keeps an empty Tag.  A name written without domain
\* gets the domain docker.io, and the path library/<name> when the name has
\* one component; "alpine" gives docker.io, library/alpine, latest.
C21_DefaultTagAndDomain ==
    (parseCall.done /\ parseCall.kind = "written") =>
        LET ref == parseCall.ref
            bare == parseCall.tag = EmptyString /\ parseCall.digest = EmptyString
        IN  /\ ref.err = NilErr
            /\ bare => (ref.Tag = latest /\ ref.ExplicitTag = EmptyString)
            /\ ~bare => (ref.Tag = parseCall.tag /\ ref.ExplicitTag = parseCall.tag)
            /\ ref.Digest = parseCall.digest
            /\ parseCall.domain = EmptyString => ref.Domain = dockerIO
            /\ parseCall.domain # EmptyString => ref.Domain = parseCall.domain
            /\ ref.Path = IF ref.Domain = dockerIO /\ Index(parseCall.path, "/") = 0
                          THEN library \o <<"/">> \o parseCall.path
                          ELSE parseCall.path
            /\ parseCall.rawRef = <<"a", "l", "p", "i", "n", "e">>
                  => /\ ref.Domain = <<"d", "o", "c", "k", "e", "r", ".", "i", "o">>
                     /\ ref.Path = <<"l", "i", "b", "r", "a", "r", "y", "/", "a", "l", "p", "i", "n", "e">>
                     /\ ref.Tag = <<"l", "a", "t", "e", "s", "t">>

\* "alpine@" and a sha256 digest parsed: docker.io, library/alpine, the digest, no tag
C21_Witness ==
    /\ parseCall.done
    /\ parseCall.rawRef = <<"a", "l", "p", "i", "n", "e", "@">> \o ModelDigest
    /\ parseCall.ref.err = NilErr
    /\ parseCall.ref.Domain = <<"d", "o", "c", "k", "e", "r", ".", "i", "o">>
    /\ parseCall.ref.Path = <<"l", "i", "b", "r", "a", "r", "y", "/", "a", "l", "p", "i", "n", "e">>
    /\ parseCall.ref.Tag = EmptyString
    /\ parseCall.ref.Digest = ModelDigest

\* C22: Parse of the empty string, of a string holding a character that no
\* part of the grammar has, or of a reference whose repository holds an
\* upper-case letter, returns ErrInvalidImageReference and an ImageReference
\* with no field set; it never succeeds on them.
C22_InvalidReference ==
    (/\ parseCall.done
     /\ \/ parseCall.rawRef = EmptyString
        \/ \E i \in 1..Len(parseCall.rawRef) : parseCall.rawRef[i] = Illegal
        \/ parseCall.kind = "upper")
        => parseCall.ref = [NoImageReference EXCEPT !.err = ErrInvalidImageReference]

\* a tagged name whose tag holds the character is refused
C22_Witness ==
    /\ parseCall.done
    /\ parseCall.rawRef = <<"a", "l", "p", "i", "n", "e", ":", "f", "o", "#", "o">>
    /\ parseCall.ref.err = ErrInvalidImageReference

\* C23: the first Build call on a builder is the only one that can succeed
\* or report a validation error: every later Build call on it returns
\* ErrBuilderAlreadyUsed, and a builder has put at most one operation into
\* plan.operations and at most one entry into the plan's registries and nodes.
C23_BuildersSingleUse ==
    \A b \in 1..Len(builders) :
        /\ \A k \in 2..Len(builders[b].results) :
              builders[b].results[k] = "ErrBuilderAlreadyUsed"
        /\ Len(SelectSeq(operations, LAMBDA op : op.builder = b)) <= 1
        /\ Len(SelectSeq(resources, LAMBDA res : res.builder = b)) <= 1

Wraps(err, sentinel) == \E i \in 1..Len(err) : err[i] = sentinel

\* C25: a client call given a reference that does not parse sends no
\* request, so there is nothing to retry, and returns an error wrapping the
\* parse sentinel of the method: ErrParseImageReference for GetImage,
\* GetPlatformDigests, GetDigest, GetImageHandle and CheckExists,
\* ErrParseSourceReference for FetchPlatformImage, ErrParseManifestReference
\* for PushManifestList; CopyImage and CopyIndex return
\* ErrParseSourceReference when the source does not parse, whatever the
\* destination, and ErrParseDestinationReference when only the destination
\* does not.  A call that did send a request had references that parse.
C25_ParseSentinelBeforeRequest ==
    LET copies == answer.op \in {"CopyImage", "CopyIndex"}
        badRef == ~ParseReference(answer.ref)
        badDst == copies /\ ~ParseReference(answer.dst)
    IN  answer.op # "none" =>
          /\ (badRef \/ badDst) => (sent = << >> /\ answer.outcome = NoOutcome
                                    /\ answer.err # NilErr)
          /\ sent # << >> => (~badRef /\ ~badDst)
          /\ (badRef /\ answer.op \in {"GetImage", "GetPlatformDigests", "GetDigest",
                                       "GetImageHandle", "CheckExists",
                                       "Syncer.CheckExists"})
                => Wraps(answer.err, "ErrParseImageReference")
          /\ (badRef /\ answer.op = "FetchPlatformImage")
                => Wraps(answer.err, "ErrParseSourceReference")
          /\ (badRef /\ answer.op = "PushManifestList")
                => Wraps(answer.err, "ErrParseManifestReference")
          /\ (badRef /\ copies) => answer.err = <<"ErrParseSourceReference">>
          /\ (~badRef /\ badDst) => answer.err = <<"ErrParseDestinationReference">>

\* CopyIndex given two references that do not parse reports the source
C25_Witness ==
    /\ answer.op = "CopyIndex"
    /\ answer.ref = <<"i", "@", "@", "@", "r">>
    /\ answer.dst = EmptyString
    /\ answer.err = <<"ErrParseSourceReference">>
    /\ sent = << >>
    /\ made["source"] = 1

\* C26: a multi-platform SyncImage call whose source index has neither
\* linux/amd64 nor linux/arm64 returns an error and has written nothing to
\* the destination; no manifest list without entries is ever pushed.
C26_NoRetainedPlatformFails ==
    /\ \A w \in 1..Len(dstWrites) :
          dstWrites[w].kind = "index" => Len(dstWrites[w].manifests) >= 1
    /\ (Returned /\ MultiFlow /\ DOMAIN platformDigests \cap {KeyAMD64, KeyARM64} = {})
          => (retErr # NilErr /\ retDigest = EmptyString /\ dstWrites = << >>)

\* the platforms of the sync that Sync.execute is running
ConfiguredPlatforms ==
    {plan[executing].platforms[i] : i \in 1..Len(plan[executing].platforms)}

C28_StripTagBareRepository ==
    stripCall.done =>
        /\ stripCall.result = Repository(stripCall.host, stripCall.path)
        /\ BareRepository(stripCall.result)
        /\ \A digest \in PlatformDigestValues :
              srcDigestRef(stripCall.result, digest)
                 = Repository(stripCall.host, stripCall.path) \o <<"@">> \o digest

\* the call went through syncSinglePlatform
SingleFlow == \E k \in 1..Len(trace) : trace[k] = "SinglePlatformCopy"

\* C29: a single-platform sync that succeeds has read one image from the
\* source, under the source reference, and has written that image, once, to
\* the destination reference; the digest it returns is the one of the image
\* written and, the source reference carrying a digest, that very digest.
C29_SinglePlatformSyncsVerifiedContent ==
    (Returned /\ SingleFlow /\ retErr = NilErr) =>
        /\ Len(dstWrites) = 1
        /\ dstWrites[1].kind = "image"
        /\ dstWrites[1].ref = dstImage
        /\ retDigest = dstWrites[1].digest
        /\ Cardinality(Requests("Image")) = 1
        /\ Cardinality(Requests("Write")) = 1
        /\ \A i \in Requests("Image"), w \in Requests("Write") :
              /\ i < w
              /\ calls[i].client = "source" /\ calls[i].ref = srcImage /\ calls[i].ok
              /\ calls[w].client = "destination" /\ calls[w].ref = dstImage /\ calls[w].ok
        /\ RefDigest(srcImage) # EmptyString
              => /\ retDigest = RefDigest(srcImage)
                 /\ dstWrites[1].digest = RefDigest(srcImage)

\* a sync run from a plan copied the image h:5/a@s:0 and returned s:0
C29_Witness ==
    /\ Returned
    /\ SingleFlow
    /\ via = "sdk"
    /\ retErr = NilErr
    /\ srcImage = <<"h", ":", "5", "/", "a", "@", "s", ":", "0">>
    /\ retDigest = Digest0
    /\ Len(dstWrites) = 1
    /\ dstWrites[1].digest = Digest0

\* the descriptors of the call's index that carry a platform
WithPlatform ==
    {i \in 1..Len(digestsCall.manifests) : digestsCall.manifests[i].platform.has}

\* C30: the map GetPlatformDigests returns has one entry for each os/architecture
\* pair found among the descriptors that carry a platform and no other entry;
\* a descriptor without platform adds nothing, and of the descriptors with the
\* same os/architecture, differing by variant or not, the last in manifest
\* order gives the digest.
C30_OneDigestPerPlatform ==
    (digestsCall.done /\ digestsCall.err = NilErr) =>
        LET manifests == digestsCall.manifests
            result == digestsCall.result
        IN  /\ DOMAIN result = {PlatformKey(manifests[i].platform) : i \in WithPlatform}
            /\ Cardinality(DOMAIN result)
                  = Cardinality({<<manifests[i].platform.os,
                                   manifests[i].platform.architecture>> : i \in WithPlatform})
            /\ \A i \in WithPlatform :
                  (\A j \in WithPlatform :
                      PlatformKey(manifests[j].platform) = PlatformKey(manifests[i].platform)
                         => j <= i)
                     => result[PlatformKey(manifests[i].platform)] = manifests[i].digest

\* linux/arm v6, a descriptor without platform, linux/arm v7: one entry, with
\* the digest of the v7 image
C30_Witness ==
    /\ digestsCall.done
    /\ digestsCall.err = NilErr
    /\ Len(digestsCall.manifests) = 3
    /\ digestsCall.manifests[1] = [platform |-> VariantPlatform(linux, arm, <<"v", "6">>),
                                   digest |-> Digest1]
    /\ digestsCall.manifests[2] = [platform |-> NoVariantPlatform, digest |-> Digest1]
    /\ digestsCall.manifests[3] = [platform |-> VariantPlatform(linux, arm, <<"v", "7">>),
                                   digest |-> Digest2]
    /\ DOMAIN digestsCall.result = {Sprintf(linux, arm)}
    /\ digestsCall.result[Sprintf(linux, arm)] = Digest2

====
